---- MODULE Spec2Model ----
(***************************************************************************)
(* Model of the shopping-list consolidation and categorization engine of   *)
(* woolie-shopper: the rule-based generator (smart_shopping_list.py), the  *)
(* recipe aggregation (recipe_manager.py, recipe_database.py), the         *)
(* preference application of the web layer (flask_app.py) and the          *)
(* AI-assisted optimizers with their repair pass (meal_plan_agent.py), the *)
(* product matcher, the chat editor, the /shopping-list route and the      *)
(* stores of preferences (database.py, firestore_manager.py,               *)
(* preferred_products_manager.py).                                         *)
(*                                                                         *)
(* Python strings are modelled as sequences of one-character strings, so   *)
(* that lower(), strip(), split() and the `in` substring test are computed *)
(* character by character.                                                 *)
(***************************************************************************)
EXTENDS Integers, Sequences, FiniteSets, TLC

VARIABLES
  \* one call of _get_category
  cat_pc, cat_in, cat_out,
  \* the preference steps
  pf_pc, pf_items, pf_subs, pf_org, pf_stage1, pf_stage2, pf_stage3,
  \* one parse of one quantity
  qp_pc, qp_in, qp_out,
  \* one aggregation of ingredient lines
  cmb_pc, cmb_lines, cmb_mult, cmb_out,
  \* one call of an optimizer
  opt_pc, opt_raw, opt_staples, opt_prefs, opt_response, opt_result,
  \* one call of match_shopping_list
  mt_pc, mt_items, mt_responses, mt_report,
  \* one request of the chat editor
  ch_pc, ch_session, ch_has_id, ch_prefs, ch_table, ch_turn, ch_served, ch_before,
  \* concurrent calls of the preferred products manager
  pp_docs, pp_initial, pp_call, pp_now,
  \* requests to the other stores of preferred products
  ws_db_type, ws_rows, ws_docs, ws_request, ws_now,
  \* calls on the substitutions table
  sb_rows, sb_calls, sb_last,
  \* calls on the shopping_defaults table
  df_rows, df_calls, df_last,
  \* one request of the /shopping-list route
  rt_pc, rt_lines, rt_staples, rt_prefs, rt_classifier, rt_served,
  \* calls on the organic_preferences table
  og_rows, og_removed, og_calls, og_last

cat_vars == <<cat_pc, cat_in, cat_out>>
pf_vars == <<pf_pc, pf_items, pf_subs, pf_org, pf_stage1, pf_stage2, pf_stage3>>
qp_vars == <<qp_pc, qp_in, qp_out>>
cmb_vars == <<cmb_pc, cmb_lines, cmb_mult, cmb_out>>
opt_vars == <<opt_pc, opt_raw, opt_staples, opt_prefs, opt_response, opt_result>>
mt_vars == <<mt_pc, mt_items, mt_responses, mt_report>>
ch_vars == <<ch_pc, ch_session, ch_has_id, ch_prefs, ch_table, ch_turn, ch_served, ch_before>>
pp_vars == <<pp_docs, pp_initial, pp_call, pp_now>>
ws_vars == <<ws_db_type, ws_rows, ws_docs, ws_request, ws_now>>
sb_vars == <<sb_rows, sb_calls, sb_last>>
df_vars == <<df_rows, df_calls, df_last>>
rt_vars == <<rt_pc, rt_lines, rt_staples, rt_prefs, rt_classifier, rt_served>>
og_vars == <<og_rows, og_removed, og_calls, og_last>>
vars == <<cat_vars, pf_vars, qp_vars, cmb_vars, opt_vars, mt_vars, ch_vars, pp_vars, ws_vars, sb_vars, df_vars, rt_vars, og_vars>>

\* What the actions of one component leave alone.
other_than_cat == <<pf_vars, qp_vars, cmb_vars, opt_vars, mt_vars, ch_vars, pp_vars, ws_vars, sb_vars, df_vars, rt_vars, og_vars>>
other_than_pf == <<cat_vars, qp_vars, cmb_vars, opt_vars, mt_vars, ch_vars, pp_vars, ws_vars, sb_vars, df_vars, rt_vars, og_vars>>
other_than_qp == <<cat_vars, pf_vars, cmb_vars, opt_vars, mt_vars, ch_vars, pp_vars, ws_vars, sb_vars, df_vars, rt_vars, og_vars>>
other_than_cmb == <<cat_vars, pf_vars, qp_vars, opt_vars, mt_vars, ch_vars, pp_vars, ws_vars, sb_vars, df_vars, rt_vars, og_vars>>
other_than_opt == <<cat_vars, pf_vars, qp_vars, cmb_vars, mt_vars, ch_vars, pp_vars, ws_vars, sb_vars, df_vars, rt_vars, og_vars>>
other_than_mt == <<cat_vars, pf_vars, qp_vars, cmb_vars, opt_vars, ch_vars, pp_vars, ws_vars, sb_vars, df_vars, rt_vars, og_vars>>
other_than_ch == <<cat_vars, pf_vars, qp_vars, cmb_vars, opt_vars, mt_vars, pp_vars, ws_vars, sb_vars, df_vars, rt_vars, og_vars>>
other_than_pp == <<cat_vars, pf_vars, qp_vars, cmb_vars, opt_vars, mt_vars, ch_vars, ws_vars, sb_vars, df_vars, rt_vars, og_vars>>
other_than_ws == <<cat_vars, pf_vars, qp_vars, cmb_vars, opt_vars, mt_vars, ch_vars, pp_vars, sb_vars, df_vars, rt_vars, og_vars>>
other_than_sb == <<cat_vars, pf_vars, qp_vars, cmb_vars, opt_vars, mt_vars, ch_vars, pp_vars, ws_vars, df_vars, rt_vars, og_vars>>
other_than_df == <<cat_vars, pf_vars, qp_vars, cmb_vars, opt_vars, mt_vars, ch_vars, pp_vars, ws_vars, sb_vars, rt_vars, og_vars>>
other_than_rt == <<cat_vars, pf_vars, qp_vars, cmb_vars, opt_vars, mt_vars, ch_vars, pp_vars, ws_vars, sb_vars, df_vars, og_vars>>
other_than_og == <<cat_vars, pf_vars, qp_vars, cmb_vars, opt_vars, mt_vars, ch_vars, pp_vars, ws_vars, sb_vars, df_vars, rt_vars>>

(***************************************************************************)
(* Python string primitives                                                *)
(***************************************************************************)

\* str.lower() on one character (ASCII letters).
LowerChar(c) ==
  CASE c = "A" -> "a" [] c = "B" -> "b" [] c = "C" -> "c" [] c = "D" -> "d"
    [] c = "E" -> "e" [] c = "F" -> "f" [] c = "G" -> "g" [] c = "H" -> "h"
    [] c = "I" -> "i" [] c = "J" -> "j" [] c = "K" -> "k" [] c = "L" -> "l"
    [] c = "M" -> "m" [] c = "N" -> "n" [] c = "O" -> "o" [] c = "P" -> "p"
    [] c = "Q" -> "q" [] c = "R" -> "r" [] c = "S" -> "s" [] c = "T" -> "t"
    [] c = "U" -> "u" [] c = "V" -> "v" [] c = "W" -> "w" [] c = "X" -> "x"
    [] c = "Y" -> "y" [] c = "Z" -> "z" [] OTHER -> c

\* str.lower()
Lower(s) == [i \in 1..Len(s) |-> LowerChar(s[i])]

\* Leading and trailing whitespace removed: str.strip()
RECURSIVE LStrip(_)
LStrip(s) == IF s # <<>> /\ Head(s) = " " THEN LStrip(Tail(s)) ELSE s

RECURSIVE RStrip(_)
RStrip(s) ==
  IF s # <<>> /\ s[Len(s)] = " " THEN RStrip(SubSeq(s, 1, Len(s) - 1)) ELSE s

Strip(s) == RStrip(LStrip(s))

\* The Python test `sub in s` on strings: sub occurs in s as a substring.
Contains(sub, s) ==
  \E i \in 0..(Len(s) - Len(sub)) : SubSeq(s, i + 1, i + Len(sub)) = sub

(***************************************************************************)
(* SmartShoppingListGenerator: the keyword table and _get_category         *)
(***************************************************************************)

\* category_map['Fresh Produce']
kw_fresh_produce ==
  <<
    <<"l","e","t","t","u","c","e">>,
    <<"s","p","i","n","a","c","h">>,
    <<"k","a","l","e">>,
    <<"a","r","u","g","u","l","a">>,
    <<"s","a","l","a","d">>,
    <<"g","r","e","e","n","s">>,
    <<"t","o","m","a","t","o">>,
    <<"c","u","c","u","m","b","e","r">>,
    <<"c","a","r","r","o","t">>,
    <<"c","e","l","e","r","y">>,
    <<"o","n","i","o","n">>,
    <<"g","a","r","l","i","c">>,
    <<"g","i","n","g","e","r">>,
    <<"p","o","t","a","t","o">>,
    <<"s","w","e","e","t"," ","p","o","t","a","t","o">>,
    <<"p","u","m","p","k","i","n">>,
    <<"s","q","u","a","s","h">>,
    <<"z","u","c","c","h","i","n","i">>,
    <<"e","g","g","p","l","a","n","t">>,
    <<"c","a","p","s","i","c","u","m">>,
    <<"p","e","p","p","e","r">>,
    <<"c","h","i","l","i">>,
    <<"j","a","l","a","p","e","n","o">>,
    <<"b","r","o","c","c","o","l","i">>,
    <<"c","a","u","l","i","f","l","o","w","e","r">>,
    <<"c","a","b","b","a","g","e">>,
    <<"b","r","u","s","s","e","l","s"," ","s","p","r","o","u","t">>,
    <<"a","p","p","l","e">>,
    <<"b","a","n","a","n","a">>,
    <<"o","r","a","n","g","e">>,
    <<"l","e","m","o","n">>,
    <<"l","i","m","e">>,
    <<"a","v","o","c","a","d","o">>,
    <<"s","t","r","a","w","b","e","r","r","y">>,
    <<"s","t","r","a","w","b","e","r","r","i","e","s">>,
    <<"b","l","u","e","b","e","r","r","y">>,
    <<"b","l","u","e","b","e","r","r","i","e","s">>,
    <<"r","a","s","p","b","e","r","r","y">>,
    <<"r","a","s","p","b","e","r","r","i","e","s">>,
    <<"g","r","a","p","e">>,
    <<"m","a","n","g","o">>,
    <<"p","i","n","e","a","p","p","l","e">>,
    <<"b","e","r","r","y">>,
    <<"b","e","r","r","i","e","s">>,
    <<"m","e","l","o","n">>,
    <<"w","a","t","e","r","m","e","l","o","n">>,
    <<"p","e","a","c","h">>,
    <<"p","e","a","r">>,
    <<"p","l","u","m">>,
    <<"c","h","e","r","r","y">>,
    <<"c","h","e","r","r","i","e","s">>,
    <<"m","u","s","h","r","o","o","m">>,
    <<"c","o","r","n">>,
    <<"p","e","a","s">>,
    <<"b","e","a","n">>,
    <<"b","e","a","n","s">>,
    <<"a","s","p","a","r","a","g","u","s">>,
    <<"b","e","e","t","r","o","o","t">>,
    <<"p","a","r","s","l","e","y">>,
    <<"c","i","l","a","n","t","r","o">>,
    <<"c","o","r","i","a","n","d","e","r">>,
    <<"b","a","s","i","l">>,
    <<"m","i","n","t">>,
    <<"d","i","l","l">>,
    <<"t","h","y","m","e">>,
    <<"r","o","s","e","m","a","r","y">>,
    <<"o","r","e","g","a","n","o">>,
    <<"s","a","g","e">>,
    <<"t","a","r","r","a","g","o","n">>,
    <<"c","h","i","v","e","s">>,
    <<"p","r","o","d","u","c","e">>,
    <<"v","e","g","e","t","a","b","l","e">>,
    <<"f","r","u","i","t">>,
    <<"h","e","r","b">>,
    <<"f","r","e","s","h">>,
    <<"z","e","s","t">>
  >>

\* category_map['Dairy & Eggs']
kw_dairy_eggs ==
  <<
    <<"m","i","l","k">>,
    <<"c","r","e","a","m">>,
    <<"y","o","g","u","r","t">>,
    <<"y","o","g","h","u","r","t">>,
    <<"c","h","e","e","s","e">>,
    <<"b","u","t","t","e","r">>,
    <<"e","g","g">>,
    <<"s","o","u","r"," ","c","r","e","a","m">>,
    <<"c","o","t","t","a","g","e"," ","c","h","e","e","s","e">>,
    <<"r","i","c","o","t","t","a">>,
    <<"m","o","z","z","a","r","e","l","l","a">>,
    <<"p","a","r","m","e","s","a","n">>,
    <<"c","h","e","d","d","a","r">>,
    <<"f","e","t","a">>,
    <<"b","r","i","e">>,
    <<"c","r","e","a","m"," ","c","h","e","e","s","e">>,
    <<"w","h","i","p","p","e","d"," ","c","r","e","a","m">>
  >>

\* category_map['Meat & Seafood']
kw_meat_seafood ==
  <<
    <<"c","h","i","c","k","e","n">>,
    <<"b","e","e","f">>,
    <<"p","o","r","k">>,
    <<"l","a","m","b">>,
    <<"t","u","r","k","e","y">>,
    <<"d","u","c","k">>,
    <<"b","a","c","o","n">>,
    <<"h","a","m">>,
    <<"s","a","u","s","a","g","e">>,
    <<"s","a","l","a","m","i">>,
    <<"p","r","o","s","c","i","u","t","t","o">>,
    <<"f","i","s","h">>,
    <<"s","a","l","m","o","n">>,
    <<"t","u","n","a">>,
    <<"c","o","d">>,
    <<"p","r","a","w","n","s">>,
    <<"s","h","r","i","m","p">>,
    <<"s","e","a","f","o","o","d">>,
    <<"m","i","n","c","e">>,
    <<"s","t","e","a","k">>,
    <<"c","h","o","p">>,
    <<"r","o","a","s","t">>,
    <<"f","i","l","l","e","t">>,
    <<"b","r","e","a","s","t">>,
    <<"t","h","i","g","h">>,
    <<"w","i","n","g">>,
    <<"m","e","a","t">>,
    <<"p","r","o","t","e","i","n">>
  >>

\* category_map['Pantry Staples']
kw_pantry_staples ==
  <<
    <<"f","l","o","u","r">>,
    <<"s","u","g","a","r">>,
    <<"s","a","l","t">>,
    <<"p","e","p","p","e","r">>,
    <<"o","i","l">>,
    <<"v","i","n","e","g","a","r">>,
    <<"r","i","c","e">>,
    <<"p","a","s","t","a">>,
    <<"n","o","o","d","l","e">>,
    <<"m","a","c","a","r","o","n","i">>,
    <<"c","o","u","s","c","o","u","s">>,
    <<"q","u","i","n","o","a">>,
    <<"s","a","u","c","e">>,
    <<"p","a","s","t","e">>,
    <<"s","t","o","c","k">>,
    <<"b","r","o","t","h">>,
    <<"b","o","u","i","l","l","o","n">>,
    <<"s","p","i","c","e">>,
    <<"s","e","a","s","o","n","i","n","g">>,
    <<"c","u","m","i","n">>,
    <<"p","a","p","r","i","k","a">>,
    <<"t","u","r","m","e","r","i","c">>,
    <<"c","u","r","r","y">>,
    <<"c","i","n","n","a","m","o","n">>,
    <<"n","u","t","m","e","g">>,
    <<"v","a","n","i","l","l","a">>,
    <<"e","x","t","r","a","c","t">>,
    <<"h","o","n","e","y">>,
    <<"s","y","r","u","p">>,
    <<"j","a","m">>,
    <<"p","e","a","n","u","t"," ","b","u","t","t","e","r">>,
    <<"t","a","h","i","n","i">>,
    <<"c","a","n","n","e","d">>,
    <<"t","i","n">>,
    <<"c","h","i","c","k","p","e","a">>,
    <<"l","e","n","t","i","l">>,
    <<"k","i","d","n","e","y"," ","b","e","a","n">>,
    <<"b","l","a","c","k"," ","b","e","a","n">>,
    <<"c","o","c","o","n","u","t"," ","m","i","l","k">>,
    <<"c","o","n","d","e","n","s","e","d"," ","m","i","l","k">>,
    <<"e","v","a","p","o","r","a","t","e","d"," ","m","i","l","k">>,
    <<"a","l","m","o","n","d"," ","m","i","l","k">>,
    <<"b","a","k","i","n","g"," ","p","o","w","d","e","r">>,
    <<"b","a","k","i","n","g"," ","s","o","d","a">>,
    <<"y","e","a","s","t">>,
    <<"c","o","r","n","s","t","a","r","c","h">>,
    <<"c","o","r","n","f","l","o","u","r">>,
    <<"b","r","e","a","d","c","r","u","m","b">>,
    <<"p","a","n","k","o">>,
    <<"c","h","i","a"," ","s","e","e","d">>,
    <<"c","h","i","a">>,
    <<"f","l","a","x">>,
    <<"s","e","s","a","m","e">>,
    <<"c","l","o","v","e">>,
    <<"c","l","o","v","e","s">>,
    <<"m","u","s","t","a","r","d">>,
    <<"c","h","i","l","i"," ","p","o","w","d","e","r">>,
    <<"g","a","r","l","i","c"," ","p","o","w","d","e","r">>,
    <<"o","n","i","o","n"," ","p","o","w","d","e","r">>,
    <<"i","t","a","l","i","a","n"," ","h","e","r","b">>,
    <<"d","r","i","e","d"," ","h","e","r","b">>,
    <<"c","h","i","l","i"," ","f","l","a","k","e","s">>,
    <<"s","t","e","v","i","a">>
  >>

\* category_map['Bakery']
kw_bakery ==
  <<
    <<"b","r","e","a","d">>,
    <<"r","o","l","l">>,
    <<"b","u","n">>,
    <<"b","a","g","e","l">>,
    <<"c","r","o","i","s","s","a","n","t">>,
    <<"m","u","f","f","i","n">>,
    <<"t","o","r","t","i","l","l","a">>,
    <<"w","r","a","p">>,
    <<"p","i","t","a">>,
    <<"n","a","a","n">>,
    <<"f","l","a","t","b","r","e","a","d">>,
    <<"c","a","k","e">>,
    <<"p","a","s","t","r","y">>,
    <<"c","o","o","k","i","e">>,
    <<"b","i","s","c","u","i","t">>
  >>

\* category_map['Frozen']
kw_frozen ==
  <<
    <<"f","r","o","z","e","n">>,
    <<"i","c","e"," ","c","r","e","a","m">>,
    <<"s","o","r","b","e","t">>,
    <<"g","e","l","a","t","o">>,
    <<"f","r","o","z","e","n"," ","v","e","g","e","t","a","b","l","e","s">>,
    <<"f","r","o","z","e","n"," ","f","r","u","i","t">>,
    <<"f","r","o","z","e","n"," ","m","e","a","l">>
  >>

\* category_map['Beverages']
kw_beverages ==
  <<
    <<"w","a","t","e","r">>,
    <<"j","u","i","c","e">>,
    <<"s","o","d","a">>,
    <<"s","o","f","t"," ","d","r","i","n","k">>,
    <<"t","e","a">>,
    <<"c","o","f","f","e","e">>,
    <<"w","i","n","e">>,
    <<"b","e","e","r">>,
    <<"s","p","i","r","i","t","s">>,
    <<"a","l","c","o","h","o","l">>,
    <<"d","r","i","n","k">>,
    <<"b","e","v","e","r","a","g","e">>
  >>

\* category_map['Snacks']
kw_snacks ==
  <<
    <<"c","h","i","p">>,
    <<"c","r","i","s","p">>,
    <<"c","r","a","c","k","e","r">>,
    <<"p","o","p","c","o","r","n">>,
    <<"p","r","e","t","z","e","l">>,
    <<"c","h","o","c","o","l","a","t","e">>,
    <<"c","a","n","d","y">>,
    <<"l","o","l","l","y">>,
    <<"s","n","a","c","k">>,
    <<"n","u","t">>,
    <<"a","l","m","o","n","d">>,
    <<"c","a","s","h","e","w">>
  >>

\* The table with Bakery placed before Pantry Staples (the order of the
\* display list category_order instead of the order of the dict literal).
category_map_bakery_first ==
  << [category |-> "Fresh Produce",  keywords |-> kw_fresh_produce],
     [category |-> "Dairy & Eggs",   keywords |-> kw_dairy_eggs],
     [category |-> "Meat & Seafood", keywords |-> kw_meat_seafood],
     [category |-> "Bakery",         keywords |-> kw_bakery],
     [category |-> "Pantry Staples", keywords |-> kw_pantry_staples],
     [category |-> "Frozen",         keywords |-> kw_frozen],
     [category |-> "Beverages",      keywords |-> kw_beverages],
     [category |-> "Snacks",         keywords |-> kw_snacks] >>

\* self.category_map: a dict literal, iterated in insertion order.
category_map ==
  << [category |-> "Fresh Produce",  keywords |-> kw_fresh_produce],
     [category |-> "Dairy & Eggs",   keywords |-> kw_dairy_eggs],
     [category |-> "Meat & Seafood", keywords |-> kw_meat_seafood],
     [category |-> "Pantry Staples", keywords |-> kw_pantry_staples],
     [category |-> "Bakery",         keywords |-> kw_bakery],
     [category |-> "Frozen",         keywords |-> kw_frozen],
     [category |-> "Beverages",      keywords |-> kw_beverages],
     [category |-> "Snacks",         keywords |-> kw_snacks] >>

\* category_order of _categorize_items: the order in which categories are
\* displayed (not the order in which _get_category scans them).
category_order ==
  << "Fresh Produce", "Dairy & Eggs", "Meat & Seafood", "Bakery",
     "Pantry Staples", "Frozen", "Beverages", "Snacks", "Other" >>

\* for category, keywords in self.category_map.items():
\*     for keyword in keywords:
\*         if keyword in item_name: return category
\* return 'Other'
RECURSIVE ScanCategories(_, _, _)
ScanCategories(map, i, item_name) ==
  IF i > Len(map) THEN "Other"
  ELSE IF \E k \in 1..Len(map[i].keywords) :
            Contains(map[i].keywords[k], item_name)
       THEN map[i].category
       ELSE ScanCategories(map, i + 1, item_name)

_get_category(item_name) == ScanCategories(category_map, 1, Lower(item_name))

\* Names handed to _get_category: every keyword of the table, and names that
\* match no keyword, several keywords, or a keyword in upper case.
AllKeywords ==
  UNION { { category_map[i].keywords[k] : k \in 1..Len(category_map[i].keywords) }
          : i \in 1..Len(category_map) }

CategoryTestNames ==
  AllKeywords \cup
  { <<"x","y","z","z","y","-","u","n","k","n","o","w","n","-","i","t","e","m">>, <<"c","h","i","c","k","e","n"," ","b","r","e","a","s","t">>, <<"C","h","i","c","k","e","n"," ","B","r","e","a","s","t">>, <<"c","i","n","n","a","m","o","n"," ","r","o","l","l">>,
    <<"b","r","e","a","d","c","r","u","m","b">>, <<"B","r","e","a","d","c","r","u","m","b","s">>, <<"g","a","r","l","i","c"," ","b","r","e","a","d">>, <<"M","I","L","K">>, <<"c","o","c","o","n","u","t"," ","m","i","l","k">>,
    <<"e","g","g","p","l","a","n","t">>, <<"c","o","r","n","s","t","a","r","c","h">>, <<"t","o","i","l","e","t"," ","p","a","p","e","r">>, <<>>, <<"f","o","i","l">>, <<"f","r","o","z","e","n"," ","p","e","a","s">>,
    <<"i","c","e","d"," ","t","e","a">>, <<"p","e","a","n","u","t"," ","b","u","t","t","e","r"," ","c","o","o","k","i","e">>, <<"s","u","g","a","r"," ","b","u","n">> }

\* One call of _get_category(name).
CatInit ==
  /\ cat_pc = "call"
  /\ cat_in \in CategoryTestNames
  /\ cat_out = "none"

CatIdle ==
  /\ cat_pc = "idle"
  /\ cat_in = <<>>
  /\ cat_out = "none"

GetCategory ==
  /\ cat_pc = "call"
  /\ cat_out' = _get_category(cat_in)
  /\ cat_pc' = "done"
  /\ UNCHANGED cat_in
  /\ UNCHANGED other_than_cat

CatNext == GetCategory

(***************************************************************************)
(* Preference application: SmartShoppingListGenerator._apply_substitutions *)
(* and _apply_organic_preferences, and apply_preferences of the web layer  *)
(***************************************************************************)

\* A dict key that is not present (dict.get returning its default).
Absent == << "<absent>" >>

Concat(s, t) == s \o t

\* An ingredient dict as the preference steps read and write it.  notes is
\* the sequence of the pieces appended to it (string concatenation in the
\* generator, list.append in the web layer).
Item(name) ==
  [name |-> name, notes |-> <<>>, search_term |-> Absent, original_name |-> Absent]

Max(S) == CHOOSE x \in S : \A y \in S : y <= x

\* sub_map[original] = replacement, built in list order from the rules whose
\* lower-cased original and whose replacement are both non-empty; a later
\* rule overwrites an earlier one with the same original.
SubMapGet(substitutions, name) ==
  LET hits == { i \in 1..Len(substitutions) :
                  /\ Lower(substitutions[i].original) = name
                  /\ Lower(substitutions[i].original) # <<>>
                  /\ substitutions[i].substitute # <<>> }
  IN  IF hits = {} THEN Absent ELSE substitutions[Max(hits)].substitute

\* SmartShoppingListGenerator._apply_substitutions: `if name in sub_map`
\* is dict membership, i.e. equality of the lower-cased name with a key.
_apply_substitutions(ingredients, substitutions) ==
  IF substitutions = <<>> THEN ingredients
  ELSE [i \in 1..Len(ingredients) |->
          LET item == ingredients[i]
              name == Lower(item.name)
              repl == SubMapGet(substitutions, name)
          IN  IF repl # Absent
              THEN [item EXCEPT !.name = repl,
                                !.notes = Append(@, <<"Substituted from", name>>)]
              ELSE item]

\* SmartShoppingListGenerator._apply_organic_preferences
_apply_organic_preferences(ingredients, organic_prefs) ==
  IF organic_prefs = <<>> THEN ingredients
  ELSE LET organic_set == { Lower(organic_prefs[k]) : k \in 1..Len(organic_prefs) }
       IN [i \in 1..Len(ingredients) |->
             LET item == ingredients[i]
                 name_lower == Lower(item.name)
                 should_be_organic == \E pref \in organic_set : Contains(pref, name_lower)
             IN  IF should_be_organic /\ ~Contains(<<"o","r","g","a","n","i","c">>, name_lower)
                 THEN [item EXCEPT !.name = Concat(<<"o","r","g","a","n","i","c"," ">>, item.name),
                                   !.notes = Append(@, <<"organic mark">>)]
                 ELSE item]

\* apply_preferences, the loop over prefs_db.get_all_substitutions():
\* ingredient_name is the lower-cased name of the item as it came in.
RECURSIVE FlaskSubstitute(_, _, _, _)
FlaskSubstitute(item_copy, ingredient_name, substitutions, k) ==
  IF k > Len(substitutions) THEN item_copy
  ELSE LET sub == substitutions[k]
           next == IF Contains(Lower(sub.original), ingredient_name)
                   THEN [item_copy EXCEPT
                           !.original_name = item_copy.name,
                           !.name = sub.substitute,
                           !.notes = Append(@, <<"Substituted from", sub.original>>)]
                   ELSE item_copy
       IN  FlaskSubstitute(next, ingredient_name, substitutions, k + 1)

\* apply_preferences, the loop over prefs_db.get_all_organic_preferences().
RECURSIVE FlaskOrganic(_, _, _, _)
FlaskOrganic(item_copy, ingredient_name, organic_items, k) ==
  IF k > Len(organic_items) THEN item_copy
  ELSE LET next == IF Contains(Lower(organic_items[k]), ingredient_name)
                   THEN [item_copy EXCEPT
                           !.search_term = Concat(<<"o","r","g","a","n","i","c"," ">>, item_copy.name),
                           !.notes = Append(@, <<"Organic preferred">>)]
                   ELSE item_copy
       IN  FlaskOrganic(next, ingredient_name, organic_items, k + 1)

\* apply_preferences(ingredients) of flask_app.py, reading the preference
\* store (active substitutions ordered by original, organic preferences).
apply_preferences(ingredients, substitutions, organic_items) ==
  [i \in 1..Len(ingredients) |->
     LET item == ingredients[i]
         ingredient_name == Lower(item.name)
     IN  FlaskOrganic(FlaskSubstitute(item, ingredient_name, substitutions, 1),
                      ingredient_name, organic_items, 1)]

\* ---- inputs ----
MaxPrefItems == 2

PrefNames ==
  { <<"m","i","l","k">>, <<"a","l","m","o","n","d"," ","m","i","l","k">>, <<" ","M","i","l","k">>, <<"k","a","l","e">>, <<"K","a","l","e"," ","c","h","i","p","s">>, <<"o","r","g","a","n","i","c"," ","k","a","l","e">>, <<"r","i","c","e">> }

\* The active rows of the substitutions table, ordered by original
\* (add_substitution stores both columns lower-cased, originals are unique).
PrefRuleLists ==
  { <<>>,
    << [original |-> <<"k","a","l","e">>, substitute |-> <<"s","p","i","n","a","c","h">>] >>,
    << [original |-> <<"m","i","l","k">>, substitute |-> <<"o","a","t"," ","m","i","l","k">>] >>,
    << [original |-> <<"r","i","c","e">>, substitute |-> <<"k","a","l","e">>] >>,
    << [original |-> <<"a","l","m","o","n","d"," ","m","i","l","k">>, substitute |-> <<"s","o","y"," ","m","i","l","k">>],
       [original |-> <<"m","i","l","k">>, substitute |-> <<"o","a","t"," ","m","i","l","k">>] >>,
    << [original |-> <<" ","m","i","l","k">>, substitute |-> <<"o","a","t"," ","m","i","l","k">>] >> }

\* The rows of organic_preferences (stored lower-cased, in no fixed order).
PrefOrganicLists ==
  { <<>>, << <<"k","a","l","e">> >>, << <<"m","i","l","k">> >>, << <<"k","a","l","e">>, <<"m","i","l","k">> >>, << <<"m","i","l","k">>, <<"k","a","l","e">> >>,
    << <<"s","p","i","n","a","c","h">> >> }

PrefItemLists ==
  UNION { [1..n -> { Item(nm) : nm \in PrefNames }] : n \in 1..MaxPrefItems }

PrefInit ==
  /\ pf_pc = "start"
  /\ pf_items \in PrefItemLists
  /\ pf_subs \in PrefRuleLists
  /\ pf_org \in PrefOrganicLists
  /\ pf_stage1 = <<>>
  /\ pf_stage2 = <<>>
  /\ pf_stage3 = <<>>

PrefIdle ==
  /\ pf_pc = "idle"
  /\ pf_items = <<>>
  /\ pf_subs = <<>>
  /\ pf_org = <<>>
  /\ pf_stage1 = <<>>
  /\ pf_stage2 = <<>>
  /\ pf_stage3 = <<>>

\* generate_optimized_list, step 2
ApplySubstitutions ==
  /\ pf_pc = "start"
  /\ pf_stage1' = _apply_substitutions(pf_items, pf_subs)
  /\ pf_pc' = "substituted"
  /\ UNCHANGED <<pf_items, pf_subs, pf_org, pf_stage2, pf_stage3>>
  /\ UNCHANGED other_than_pf

\* generate_optimized_list, step 3
ApplyOrganicPreferences ==
  /\ pf_pc = "substituted"
  /\ pf_stage2' = _apply_organic_preferences(pf_stage1, pf_org)
  /\ pf_pc' = "organic"
  /\ UNCHANGED <<pf_items, pf_subs, pf_org, pf_stage1, pf_stage3>>
  /\ UNCHANGED other_than_pf

\* _apply_organic_preferences applied to its own result
ApplyOrganicPreferencesAgain ==
  /\ pf_pc = "organic"
  /\ pf_stage3' = _apply_organic_preferences(pf_stage2, pf_org)
  /\ pf_pc' = "organic_again"
  /\ UNCHANGED <<pf_items, pf_subs, pf_org, pf_stage1, pf_stage2>>
  /\ UNCHANGED other_than_pf

\* The /shopping-list route without the optimizer: apply_preferences(items)
ApplyPreferences ==
  /\ pf_pc = "start"
  /\ pf_stage1' = apply_preferences(pf_items, pf_subs, pf_org)
  /\ pf_pc' = "prefs"
  /\ UNCHANGED <<pf_items, pf_subs, pf_org, pf_stage2, pf_stage3>>
  /\ UNCHANGED other_than_pf

\* apply_preferences applied to its own result.  pf_stage1 keeps the value
\* the first call returned (the second call appends to the same notes lists,
\* item.copy() being shallow).
ApplyPreferencesAgain ==
  /\ pf_pc = "prefs"
  /\ pf_stage2' = apply_preferences(pf_stage1, pf_subs, pf_org)
  /\ pf_pc' = "prefs_again"
  /\ UNCHANGED <<pf_items, pf_subs, pf_org, pf_stage1, pf_stage3>>
  /\ UNCHANGED other_than_pf

PrefNext ==
  \/ ApplySubstitutions
  \/ ApplyOrganicPreferences
  \/ ApplyOrganicPreferencesAgain
  \/ ApplyPreferences
  \/ ApplyPreferencesAgain

(***************************************************************************)
(* Quantity parsing.  Numbers are exact decimals counted in thousandths    *)
(* (1.5 is 1500); the quantities of the model have at most three decimal    *)
(* places.                                                                  *)
(***************************************************************************)

\* The value None (a key that is present and holds no value).
PyNone == << "<None>" >>

Digits == { "0", "1", "2", "3", "4", "5", "6", "7", "8", "9" }

IsDigit(c) == c \in Digits

DigitVal(c) ==
  CASE c = "0" -> 0 [] c = "1" -> 1 [] c = "2" -> 2 [] c = "3" -> 3
    [] c = "4" -> 4 [] c = "5" -> 5 [] c = "6" -> 6 [] c = "7" -> 7
    [] c = "8" -> 8 [] c = "9" -> 9

DigitChar(d) == << "0", "1", "2", "3", "4", "5", "6", "7", "8", "9" >>[d + 1]

\* The value of a string of decimal digits (0 for the empty string).
RECURSIVE DigitsValue(_)
DigitsValue(d) ==
  IF d = <<>> THEN 0
  ELSE 10 * DigitsValue(SubSeq(d, 1, Len(d) - 1)) + DigitVal(d[Len(d)])

\* The last position of the run of digits that starts at p (p - 1: no digit).
RECURSIVE DigitRunEnd(_, _)
DigitRunEnd(s, p) ==
  IF p <= Len(s) /\ IsDigit(s[p]) THEN DigitRunEnd(s, p + 1) ELSE p - 1

\* The digits after the decimal point as thousandths.
FractionValue(frac) ==
  LET f3 == SubSeq(frac \o <<"0", "0", "0">>, 1, 3) IN DigitsValue(f3)

\* float() of the text "<digits>[.<digits>]" or ".<digits>"
DecimalValue(intpart, frac) == DigitsValue(intpart) * 1000 + FractionValue(frac)

NoNumber == [ok |-> FALSE, val |-> 0]

Number(v) == [ok |-> TRUE, val |-> v]

Min(S) == CHOOSE x \in S : \A y \in S : x <= y

\* re.search(r'(\d+\.?\d*)', qty_str) and float(match.group(1)): the leftmost
\* run of digits anywhere in the string, an optional point, further digits.
RegexNumber(qty_str) ==
  LET starts == { p \in 1..Len(qty_str) : IsDigit(qty_str[p]) }
  IN  IF starts = {} THEN NoNumber
      ELSE LET p  == Min(starts)
               e1 == DigitRunEnd(qty_str, p)
               hasPoint == e1 < Len(qty_str) /\ qty_str[e1 + 1] = "."
               e2 == IF hasPoint THEN DigitRunEnd(qty_str, e1 + 2) ELSE e1
           IN  Number(DecimalValue(SubSeq(qty_str, p, e1),
                                   IF hasPoint THEN SubSeq(qty_str, e1 + 2, e2) ELSE <<>>))

\* str(item.get('quantity', '1')): a missing key reads as '1', None as 'None'.
QtyStrOrOne(quantity) ==
  IF quantity = Absent THEN <<"1">>
  ELSE IF quantity = PyNone THEN <<"N","o","n","e">>
  ELSE quantity

\* The parse of one line's quantity in the loop of _combine_duplicates.
CombineParse(quantity) == RegexNumber(QtyStrOrOne(quantity))

\* float(s) of a string: surrounding whitespace is ignored, and the whole
\* rest must be a number.  (Signs, exponents, inf and nan do not occur in the
\* quantities of the model.)
PyFloat(s) ==
  LET t  == Strip(s)
      e1 == DigitRunEnd(t, 1)
      hasPoint == e1 < Len(t) /\ t[e1 + 1] = "."
      e2 == IF hasPoint THEN DigitRunEnd(t, e1 + 2) ELSE e1
      intpart == SubSeq(t, 1, e1)
      frac == IF hasPoint THEN SubSeq(t, e1 + 2, e2) ELSE <<>>
  IN  IF t # <<>> /\ e2 = Len(t) /\ (intpart # <<>> \/ frac # <<>>)
      THEN Number(DecimalValue(intpart, frac))
      ELSE NoNumber

\* `float(q) if q else 0` of generate_shopping_list: a missing, None or empty
\* quantity counts as 0; ok = FALSE stands for the ValueError of float().
FloatOrZero(quantity) ==
  IF quantity \in {Absent, PyNone, <<>>} THEN Number(0) ELSE PyFloat(quantity)

\* ---- one parse of one quantity ----
MaxQtyLen == 3

QtyAlphabet == { "0", "1", "2", ".", "/", " ", "h" }

QtyInputs ==
  {Absent, PyNone} \cup UNION { [1..n -> QtyAlphabet] : n \in 0..MaxQtyLen }

QpInit ==
  /\ qp_pc = "start"
  /\ qp_in \in QtyInputs
  /\ qp_out = NoNumber

QpIdle ==
  /\ qp_pc = "idle"
  /\ qp_in = <<>>
  /\ qp_out = NoNumber

\* _combine_duplicates, lines 155-163, for one item of a group
ParseInCombine ==
  /\ qp_pc = "start"
  /\ qp_out' = CombineParse(qp_in)
  /\ qp_pc' = "combine"
  /\ UNCHANGED qp_in
  /\ UNCHANGED other_than_qp

\* generate_shopping_list, lines 190-191, for one quantity
ParseInShoppingList ==
  /\ qp_pc = "start"
  /\ qp_out' = FloatOrZero(qp_in)
  /\ qp_pc' = "shopping_list"
  /\ UNCHANGED qp_in
  /\ UNCHANGED other_than_qp

QpNext == ParseInCombine \/ ParseInShoppingList

(***************************************************************************)
(* Aggregation of ingredient lines: SmartShoppingListGenerator             *)
(* ._combine_duplicates and generate_shopping_list of RecipeManager and    *)
(* RecipeDatabase                                                          *)
(***************************************************************************)

\* ' '.join(name.split()) of a stripped string: runs of blanks become one.
RECURSIVE CollapseBlanks(_)
CollapseBlanks(s) ==
  IF Len(s) <= 1 THEN s
  ELSE IF s[1] = " " /\ s[2] = " " THEN CollapseBlanks(Tail(s))
  ELSE <<s[1]>> \o CollapseBlanks(Tail(s))

\* name.lower().strip(), then ' '.join(name.split())
GroupName(name) == CollapseBlanks(Strip(Lower(name)))

\* Decimal digits of a natural number: str(int)
RECURSIVE NatToStr(_)
NatToStr(n) ==
  IF n < 10 THEN <<DigitChar(n)>> ELSE NatToStr(n \div 10) \o <<DigitChar(n % 10)>>

\* s.rstrip(c)
RECURSIVE RStripChar(_, _)
RStripChar(s, c) ==
  IF s # <<>> /\ s[Len(s)] = c THEN RStripChar(SubSeq(s, 1, Len(s) - 1), c) ELSE s

\* f"{total_qty:.1f}": one decimal place, a tie rounded to the even digit
\* (the quantities of the model are multiples of 0.25, which floats hold
\* exactly).
FormatOneDecimal(v) ==
  LET t == v \div 100
      r == v % 100
      tenths == IF r > 50 THEN t + 1
                ELSE IF r < 50 THEN t
                ELSE IF t % 2 = 0 THEN t ELSE t + 1
  IN  NatToStr(tenths \div 10) \o <<".">> \o <<DigitChar(tenths % 10)>>

\* f"{total_qty:.1f}".rstrip('0').rstrip('.')
FormatTotal(v) == RStripChar(RStripChar(FormatOneDecimal(v), "0"), ".")

\* str(x) of a float x: the shortest decimal, with at least one decimal place
\* (for the exactly representable values of the model).
FloatStr(v) ==
  LET f == v % 1000
      f3 == <<DigitChar(f \div 100), DigitChar((f \div 10) % 10), DigitChar(f % 10)>>
      frac == RStripChar(f3, "0")
  IN  NatToStr(v \div 1000) \o <<".">> \o (IF frac = <<>> THEN <<"0">> ELSE frac)

\* The indices of a set in ascending order.
RECURSIVE Ascending(_)
Ascending(S) ==
  IF S = {} THEN <<>> ELSE LET m == Min(S) IN <<m>> \o Ascending(S \ {m})

\* The keys of a dict filled in list order: each key once, first seen first.
FirstSeen(keys) ==
  LET F[i \in 0..Len(keys)] ==
        IF i = 0 THEN <<>>
        ELSE IF \E j \in 1..Len(F[i - 1]) : F[i - 1][j] = keys[i]
             THEN F[i - 1]
             ELSE Append(F[i - 1], keys[i])
  IN  F[Len(keys)]

RECURSIVE SumOver(_, _)
SumOver(f, idx) ==
  IF idx = <<>> THEN 0 ELSE f[Head(idx)] + SumOver(f, Tail(idx))

RECURSIVE Flatten(_)
Flatten(seqs) == IF seqs = <<>> THEN <<>> ELSE Head(seqs) \o Flatten(Tail(seqs))

\* An ingredient line.  src is not a field of the program: it names the input
\* lines (by position) whose quantities an entry of the result stands for.
Line(name, quantity, unit, is_optional) ==
  [name |-> name, quantity |-> quantity, unit |-> unit,
   is_optional |-> is_optional, notes |-> Absent, src |-> {}]

\* What _combine_duplicates appends for one group (the lines at idx, in
\* list order, all with the normalized name `name`).
CombineGroup(ingredients, name, idx) ==
  IF Len(idx) = 1
  THEN << [ingredients[idx[1]] EXCEPT !.src = {idx[1]}] >>
  ELSE LET parsed == [i \in 1..Len(ingredients) |-> CombineParse(ingredients[i].quantity)]
           can_sum == \A k \in 1..Len(idx) : parsed[idx[k]].ok
           total_qty == SumOver([i \in 1..Len(ingredients) |-> parsed[i].val], idx)
       IN  IF can_sum /\ total_qty > 0
           THEN << [name |-> name,
                    quantity |-> FormatTotal(total_qty),
                    unit |-> ingredients[idx[1]].unit,
                    notes |-> <<"Combined from", Len(idx)>>,
                    is_optional |-> Absent,
                    src |-> { idx[k] : k \in 1..Len(idx) }] >>
           ELSE [k \in 1..Len(idx) |->
                   [ingredients[idx[k]] EXCEPT !.notes = <<"From recipe", k>>,
                                               !.src = {idx[k]}]]

\* SmartShoppingListGenerator._combine_duplicates
_combine_duplicates(ingredients) ==
  LET names == FirstSeen([i \in 1..Len(ingredients) |-> GroupName(ingredients[i].name)])
      group(name) == Ascending({ i \in 1..Len(ingredients) :
                                   GroupName(ingredients[i].name) = name })
  IN  Flatten([g \in 1..Len(names) |-> CombineGroup(ingredients, names[g], group(names[g]))])

\* key = f"{ingredient_name}_{unit}"
MapKey(line) ==
  line.name \o <<"_">> \o (IF line.unit = PyNone THEN <<"N","o","n","e">> ELSE line.unit)

\* One pass of the aggregation loop of generate_shopping_list over the lines
\* of all selected recipes: ingredients_map as the sequence of its values in
\* insertion order.
AggregateMap(lines) ==
  LET F[i \in 0..Len(lines)] ==
        IF i = 0 THEN <<>>
        ELSE LET map == F[i - 1]
                 line == lines[i]
                 hit == { j \in 1..Len(map) : MapKey(map[j]) = MapKey(line) }
             IN  IF hit = {}
                 THEN Append(map, [line EXCEPT !.src = {i}])
                 ELSE LET j == CHOOSE x \in hit : TRUE
                          existing_qty == FloatOrZero(map[j].quantity)
                          new_qty == FloatOrZero(line.quantity)
                      IN  IF existing_qty.ok /\ new_qty.ok
                          THEN [map EXCEPT
                                  ![j].quantity = FloatStr(existing_qty.val + new_qty.val),
                                  ![j].src = @ \cup {i}]
                          ELSE map
  IN  F[Len(lines)]

\* The servings multiplier: quantities that float() accepts are multiplied and
\* written back as str(float); empty ones and the others stay.
Multiply(entry, servings_multiplier) ==
  IF entry.quantity \in {Absent, PyNone, <<>>} THEN entry
  ELSE LET q == PyFloat(entry.quantity)
       IN  IF q.ok THEN [entry EXCEPT !.quantity = FloatStr(q.val * servings_multiplier)]
           ELSE entry

\* Code points, as far as the order of the characters of the model goes.
CodeOrder ==
  << " ", "-", ".", "/", "0", "1", "2", "3", "4", "5", "6", "7", "8", "9",
     "A", "B", "C", "D", "E", "F", "G", "H", "I", "J", "K", "L", "M", "N", "O",
     "P", "Q", "R", "S", "T", "U", "V", "W", "X", "Y", "Z", "_",
     "a", "b", "c", "d", "e", "f", "g", "h", "i", "j", "k", "l", "m", "n", "o",
     "p", "q", "r", "s", "t", "u", "v", "w", "x", "y", "z" >>

Ord(c) == CHOOSE i \in 1..Len(CodeOrder) : CodeOrder[i] = c

\* s < t for Python strings
RECURSIVE StrLess(_, _)
StrLess(s, t) ==
  IF t = <<>> THEN FALSE
  ELSE IF s = <<>> THEN TRUE
  ELSE IF Head(s) = Head(t) THEN StrLess(Tail(s), Tail(t))
  ELSE Ord(Head(s)) < Ord(Head(t))

\* sorted(shopping_list, key=lambda x: x['ingredient_name']): stable.
RECURSIVE SortedByName(_)
SortedByName(entries) ==
  IF entries = <<>> THEN <<>>
  ELSE LET least == Min({ i \in 1..Len(entries) :
                            \A j \in 1..Len(entries) : ~StrLess(entries[j].name, entries[i].name) })
       IN  <<entries[least]>> \o
           SortedByName(SubSeq(entries, 1, least - 1) \o SubSeq(entries, least + 1, Len(entries)))

\* RecipeManager.generate_shopping_list and RecipeDatabase.generate_shopping_list
generate_shopping_list(lines, servings_multiplier) ==
  LET map == AggregateMap(lines)
  IN  SortedByName([j \in 1..Len(map) |-> Multiply(map[j], servings_multiplier)])

\* ---- inputs ----
MaxLines == 3

CombineQuantities == { <<"2">>, <<"0">>, <<"0",".","2","5">>, <<"1","/","2">>, <<"h","a","l","f">>, <<>> }

\* The lines a recipe can have, as (name, quantity, unit): flour in cups with
\* every quantity, the same ingredient spelled differently, flour by weight,
\* and another ingredient.
CombineLines ==
  { <<<<"f","l","o","u","r">>, quantity, <<"c","u","p">>>> : quantity \in CombineQuantities }
    \cup { <<<<"F","l","o","u","r"," ">>, <<"2">>, <<"c","u","p">>>>, <<<<"F","l","o","u","r"," ">>, <<"h","a","l","f">>, <<"c","u","p">>>>,
            <<<<"f","l","o","u","r">>, <<"2">>, <<"g">>>>, <<<<"m","i","l","k">>, <<"2">>, <<"c","u","p">>>> }

\* Which lines are optional: none, the first only, or all but the first.
OptionalPatterns == { "none", "first", "rest" }

IsOptionalIn(pattern, i) ==
  CASE pattern = "none" -> FALSE
    [] pattern = "first" -> i = 1
    [] pattern = "rest" -> i > 1

\* The lines of the selected recipes, in order.
CmbInit ==
  /\ cmb_pc = "start"
  /\ \E n \in 1..MaxLines :
       \E lines \in [1..n -> CombineLines], p \in OptionalPatterns :
         cmb_lines = [i \in 1..n |->
                        Line(lines[i][1], lines[i][2], lines[i][3], IsOptionalIn(p, i))]
  /\ cmb_mult = 1
  /\ cmb_out = <<>>

CmbIdle ==
  /\ cmb_pc = "idle"
  /\ cmb_lines = <<>>
  /\ cmb_mult = 1
  /\ cmb_out = <<>>

\* generate_optimized_list, step 1
CombineDuplicates ==
  /\ cmb_pc = "start"
  /\ cmb_out' = _combine_duplicates(cmb_lines)
  /\ cmb_pc' = "combined"
  /\ UNCHANGED <<cmb_lines, cmb_mult>>
  /\ UNCHANGED other_than_cmb

\* RecipeManager.generate_shopping_list(recipe_ids, servings_multiplier), and
\* RecipeDatabase.generate_shopping_list, which is the same code over rows.
GenerateShoppingList ==
  /\ cmb_pc = "start"
  /\ \E servings_multiplier \in {1, 2} :
       /\ cmb_mult' = servings_multiplier
       /\ cmb_out' = generate_shopping_list(cmb_lines, servings_multiplier)
  /\ cmb_pc' = "shopping_list"
  /\ UNCHANGED cmb_lines
  /\ UNCHANGED other_than_cmb

CmbNext ==
  \/ CombineDuplicates
  \/ GenerateShoppingList

(***************************************************************************)
(* The AI-assisted optimizers (ShoppingListOptimizer and                   *)
(* ShoppingListOptimizerNative of meal_plan_agent.py) with their repair    *)
(* pass and fallback, and generate_optimized_list of the generator         *)
(***************************************************************************)

\* f"{qty} {unit}".strip()
QuantityText(qty, unit) == Strip(qty \o <<" ">> \o unit)

\* ing.get('name', ing.get('ingredient_name', default)); the lines of the
\* model carry the key 'name'.
IngredientName(ing, default) == IF ing.name = Absent THEN default ELSE ing.name

\* A staple of the session: staple.get('in_stock', False) is in_stock, and
\* category is the category the staple was configured with.
Staple(name, quantity, unit, in_stock, category) ==
  [name |-> name, quantity |-> quantity, unit |-> unit, in_stock |-> in_stock,
   category |-> category]

\* An item dict of the classifier's JSON.  item is Absent when the key is
\* missing and PyNone when the JSON value is null.
AiItem(item) == [item |-> item, quantity |-> <<"1">>, notes |-> ""]

\* A display item written by the repair pass or the fallback.
DisplayItem(item, quantity, notes) ==
  [item |-> item, quantity |-> quantity, notes |-> notes]

\* A dict of categories is the sequence of its (category, items) pairs in
\* insertion order.
AllItems(categories) ==
  Flatten([c \in 1..Len(categories) |-> categories[c].items])

\* sum(len(items) for items in categories.values())
CountItems(categories) == Len(AllItems(categories))

HasCategory(categories, category) ==
  \E c \in 1..Len(categories) : categories[c].category = category

\* categories['Other'] = [] if the key is not there, then one append per
\* missing item.
AppendToOther(categories, items) ==
  LET with_other == IF HasCategory(categories, "Other") THEN categories
                    ELSE Append(categories, [category |-> "Other", items |-> <<>>])
  IN  [c \in 1..Len(with_other) |->
         IF with_other[c].category = "Other"
         THEN [with_other[c] EXCEPT !.items = @ \o items]
         ELSE with_other[c]]

\* item.get('item', '').lower().strip() over all items of all categories
AiNames(categories) ==
  LET all == AllItems(categories)
  IN  { Strip(Lower(IF all[i].item = Absent THEN <<>> ELSE all[i].item)) :
          i \in 1..Len(all) }

\* any(name in ai_item or ai_item in name for ai_item in ai_items)
Found(name, ai_items) ==
  \E ai_item \in ai_items : Contains(name, ai_item) \/ Contains(ai_item, name)

\* The raw ingredients the classifier's items do not cover, in list order.
MissingIngredients(raw_ingredients, ai_items, default) ==
  LET NotFound(ing) == ~Found(Strip(Lower(IngredientName(ing, default))), ai_items)
  IN  SelectSeq(raw_ingredients, NotFound)

\* The staples that are not in stock and that the classifier's items do not
\* cover, in list order.
MissingStaples(staples, ai_items) ==
  LET NotFound(staple) == /\ ~staple.in_stock
                          /\ ~Found(Strip(Lower(staple.name)), ai_items)
  IN  SelectSeq(staples, NotFound)

\* The repair pass raises (AttributeError) when the parsed JSON is not a
\* dict with a dict of lists of item dicts under 'categories' (well_formed
\* is false: a list, a number, a list of strings for a category), or when
\* an item name is null.
ValidationRaises(result) ==
  \/ ~result.well_formed
  \/ \E i \in 1..Len(AllItems(result.categories)) :
       AllItems(result.categories)[i].item = PyNone

\* ShoppingListOptimizerNative._validate_items
_validate_items(result, raw_ingredients, staples) ==
  LET categories == result.categories
      ai_items == AiNames(categories)
      missing == MissingIngredients(raw_ingredients, ai_items, <<>>)
                   \o MissingStaples(staples, ai_items)
      added == [m \in 1..Len(missing) |->
                  DisplayItem(IngredientName(missing[m], <<"U","n","k","n","o","w","n">>),
                              QuantityText(missing[m].quantity, missing[m].unit),
                              "Added (missing from AI)")]
      repaired == IF missing # <<>> THEN AppendToOther(categories, added)
                  ELSE categories
  IN  [result EXCEPT !.categories = repaired,
                     !.has_categories = TRUE,
                     !.total_items = CountItems(repaired)]

\* ShoppingListOptimizer._validate_and_fix_missing_items
_validate_and_fix_missing_items(ai_result, raw_ingredients, staples) ==
  LET categories == ai_result.categories
      ai_items_lower == AiNames(categories)
      missing_ingredients == MissingIngredients(raw_ingredients, ai_items_lower, <<"U","n","k","n","o","w","n">>)
      missing_staples == MissingStaples(staples, ai_items_lower)
      added_ingredients ==
        [m \in 1..Len(missing_ingredients) |->
           LET item == missing_ingredients[m]
           IN  DisplayItem(IngredientName(item, <<"U","n","k","n","o","w","n">>),
                           IF item.quantity # <<>> \/ item.unit # <<>>
                           THEN QuantityText(item.quantity, item.unit) ELSE <<>>,
                           "Added (missing from AI)")]
      added_staples ==
        [m \in 1..Len(missing_staples) |->
           LET item == missing_staples[m]
           IN  DisplayItem(item.name,
                           IF item.quantity # <<>> \/ item.unit # <<>>
                           THEN QuantityText(item.quantity, item.unit) ELSE <<>>,
                           "Added (missing from AI) - Staple")]
      repaired == AppendToOther(categories, added_ingredients \o added_staples)
  IN  IF missing_ingredients \o missing_staples # <<>>
      THEN [ai_result EXCEPT !.categories = repaired,
                             !.has_categories = TRUE,
                             !.total_items = CountItems(repaired)]
      ELSE ai_result

\* The entries both fallbacks write for the raw ingredients.
FallbackIngredients(ingredients) ==
  [i \in 1..Len(ingredients) |->
     DisplayItem(IngredientName(ingredients[i], <<"U","n","k","n","o","w","n">>),
                 QuantityText(ingredients[i].quantity, ingredients[i].unit),
                 "")]

\* The entries a fallback writes for the staples that are not in stock.
FallbackStaples(staples, notes) ==
  LET NotInStock(staple) == ~staple.in_stock
      out == SelectSeq(staples, NotInStock)
  IN  [s \in 1..Len(out) |->
         DisplayItem(out[s].name, QuantityText(out[s].quantity, out[s].unit), notes)]

\* ShoppingListOptimizerNative._fallback_organization
NativeFallback(ingredients, staples) ==
  LET items == FallbackIngredients(ingredients) \o FallbackStaples(staples, "Staple")
  IN  [categories |-> << [category |-> "Other", items |-> items] >>,
       has_categories |-> TRUE,
       well_formed |-> TRUE,
       shopping_tips |-> <<"AI optimization unavailable">>,
       total_items |-> Len(items)]

\* ShoppingListOptimizer._fallback_organization
LangChainFallback(ingredients, staples) ==
  LET not_in_stock == FallbackStaples(staples, "Staple item")
  IN  [categories |->
         << [category |-> "Fresh Produce", items |-> <<>>],
            [category |-> "Dairy & Eggs", items |-> <<>>],
            [category |-> "Meat & Protein", items |-> <<>>],
            [category |-> "Pantry Staples", items |-> <<>>],
            [category |-> "Other",
             items |-> FallbackIngredients(ingredients) \o not_in_stock] >>,
       has_categories |-> TRUE,
       well_formed |-> TRUE,
       shopping_tips |-> <<"AI optimization unavailable - using basic categorization">>,
       total_items |-> Len(ingredients) + Len(not_in_stock)]

\* The outcome of the classifier call and of json.loads on its text:
\*   "raise" the call raised (API error, timeout after the retries);
\*   "text"  the text is not JSON (json.JSONDecodeError);
\*   "json"  the text, with its code fence markers removed, is JSON.
\* Whether optimize_shopping_list goes to its except branch.
TakesFallback(response) ==
  \/ response.kind \in {"raise", "text"}
  \/ response.kind = "json" /\ ValidationRaises(response.result)

\* ShoppingListOptimizerNative.optimize_shopping_list
NativeOptimize(response, raw_ingredients, staples) ==
  IF TakesFallback(response)
  THEN NativeFallback(raw_ingredients, staples)
  ELSE _validate_items(response.result, raw_ingredients, staples)

\* ShoppingListOptimizer.optimize_shopping_list
LangChainOptimize(response, raw_ingredients, staples) ==
  IF TakesFallback(response)
  THEN LangChainFallback(raw_ingredients, staples)
  ELSE _validate_and_fix_missing_items(response.result, raw_ingredients, staples)

\* categories[category].sort(key=lambda x: x['item'].lower()): stable.
RECURSIVE SortedByItem(_)
SortedByItem(items) ==
  IF items = <<>> THEN <<>>
  ELSE LET least == Min({ i \in 1..Len(items) :
                            \A j \in 1..Len(items) :
                              ~StrLess(Lower(items[j].item), Lower(items[i].item)) })
       IN  <<items[least]>> \o
           SortedByItem(SubSeq(items, 1, least - 1) \o SubSeq(items, least + 1, Len(items)))

\* SmartShoppingListGenerator._categorize_items: the categories that have
\* an item, in the order of category_order, each sorted by item name.
_categorize_items(ingredients) ==
  LET formatted == [i \in 1..Len(ingredients) |->
                      [item |-> ingredients[i].name,
                       quantity |-> ingredients[i].quantity,
                       unit |-> ingredients[i].unit,
                       notes |-> ingredients[i].notes]]
      InCategory(category) ==
        LET Here(i) == _get_category(Lower(ingredients[i].name)) = category
        IN  [k \in 1..Len(SelectSeq([i \in 1..Len(ingredients) |-> i], Here)) |->
               formatted[SelectSeq([i \in 1..Len(ingredients) |-> i], Here)[k]]]
      NonEmpty(category) == InCategory(category) # <<>>
      present == SelectSeq(category_order, NonEmpty)
  IN  [c \in 1..Len(present) |->
         [category |-> present[c], items |-> SortedByItem(InCategory(present[c]))]]

\* SmartShoppingListGenerator.generate_optimized_list.  The notes of an
\* entry are kept as the sequence of the pieces concatenated into them.
generate_optimized_list(raw_ingredients, organic_preferences, substitutions, staples) ==
  LET step1 == _combine_duplicates(raw_ingredients)
      pieces == [i \in 1..Len(step1) |->
                   [step1[i] EXCEPT !.notes = IF @ = Absent THEN <<>> ELSE <<@>>]]
      step2 == _apply_substitutions(pieces, substitutions)
      step3 == _apply_organic_preferences(step2, organic_preferences)
      NotInStock(staple) == ~staple.in_stock
      unchecked == SelectSeq(staples, NotInStock)
      combined == step3 \o
                  [s \in 1..Len(unchecked) |->
                     [name |-> unchecked[s].name,
                      quantity |-> unchecked[s].quantity,
                      unit |-> unchecked[s].unit,
                      notes |-> <<"Staple item">>]]
  IN  [categories |-> _categorize_items(combined),
       has_categories |-> TRUE,
       well_formed |-> TRUE,
       shopping_tips |-> <<>>,
       total_items |-> Len(combined)]

\* ---- inputs ----
MaxRaw == 2

\* Ingredient lines of the selected recipes.
RawPool ==
  { Line(<<"m","i","l","k">>, <<"2">>, <<"L">>, FALSE),
    Line(<<"M","i","l","k"," ">>, <<"1">>, <<"L">>, FALSE),
    Line(<<"f","l","o","u","r">>, <<>>, <<>>, FALSE),
    Line(<<"a","l","m","o","n","d"," ","m","i","l","k">>, <<"1">>, <<"L">>, FALSE) }

\* The staples of the session.
StapleLists ==
  { <<>>,
    << Staple(<<"s","a","l","t">>, <<"1">>, <<"k","g">>, FALSE, "Pantry") >>,
    << Staple(<<"s","a","l","t">>, <<"1">>, <<"k","g">>, TRUE, "Pantry") >>,
    << Staple(<<"M","i","l","k">>, <<"2">>, <<"L">>, FALSE, "Dairy") >>,
    << Staple(<<"E","g","g","s">>, <<"1">>, <<"d","o","z","e","n">>, FALSE, "Proteins") >>,
    << Staple(<<"s","a","l","t">>, <<"1">>, <<"k","g">>, FALSE, "Pantry"),
       Staple(<<"f","l","o","u","r">>, <<"1">>, <<"k","g">>, TRUE, "Pantry") >> }

\* The stored preferences: none, one substitution rule and one organic
\* preference, or one substitution rule whose substitute does not contain
\* the original.
PreferenceCases ==
  { [substitutions |-> <<>>, organic |-> <<>>],
    [substitutions |-> << [original |-> <<"m","i","l","k">>, substitute |-> <<"o","a","t"," ","m","i","l","k">>] >>,
     organic |-> << <<"f","l","o","u","r">> >>],
    [substitutions |-> << [original |-> <<"f","l","o","u","r">>, substitute |-> <<"a","l","m","o","n","d"," ","m","e","a","l">>] >>,
     organic |-> <<>>] }

\* The names the classifier gives its items, the missing key and null.
AiItemNames ==
  { <<"m","i","l","k">>, <<"a","l","m","o","n","d"," ","m","i","l","k">>, <<"F","l","o","u","r"," ">>, <<"a","l","m","o","n","d"," ","m","e","a","l">>, <<"s","a","l","t">>, <<>>, Absent, PyNone }

\* The items of the classifier's answer, in the order of the answer.
AiItemLists ==
  { <<>> } \cup { << AiItem(a) >> : a \in AiItemNames }
    \cup { << AiItem(a), AiItem(b) >> : a \in {<<"m","i","l","k">>, <<"a","l","m","o","n","d"," ","m","i","l","k">>, <<>>}, b \in AiItemNames }

\* The categories of the classifier's answer over its items: key missing,
\* all items in one category, or the last item under 'Other'.
AiLayouts == { "missing", "one", "with_other" }

AiCategories(layout, items) ==
  CASE layout = "missing" -> <<>>
    [] layout = "one" -> << [category |-> "Dairy & Eggs", items |-> items] >>
    [] layout = "with_other" ->
         << [category |-> "Dairy & Eggs",
             items |-> IF items = <<>> THEN <<>> ELSE SubSeq(items, 1, Len(items) - 1)],
            [category |-> "Other",
             items |-> IF items = <<>> THEN <<>> ELSE <<items[Len(items)]>>] >>

\* The classifier's total_items is whatever the classifier wrote.
AiTotals == { 0, 15 }

AiResult(layout, items, total, well_formed) ==
  [categories |-> AiCategories(layout, items),
   has_categories |-> layout # "missing",
   well_formed |-> well_formed,
   shopping_tips |-> <<"tip">>,
   total_items |-> total]

NoResult ==
  [categories |-> <<>>, has_categories |-> FALSE, well_formed |-> TRUE,
   shopping_tips |-> <<>>, total_items |-> 0]

Responses ==
  { [kind |-> k, result |-> NoResult] : k \in {"raise", "text"} }
    \cup { [kind |-> "json", result |-> AiResult("one", <<>>, 0, FALSE)] }
    \cup { [kind |-> "json", result |-> AiResult(layout, items, total, TRUE)] :
             layout \in AiLayouts, items \in AiItemLists, total \in AiTotals }

NoResponse == [kind |-> "none", result |-> NoResult]

OptInit ==
  /\ opt_pc = "start"
  /\ \E n \in 0..MaxRaw : opt_raw \in [1..n -> RawPool]
  /\ opt_staples \in StapleLists
  /\ opt_prefs \in PreferenceCases
  /\ opt_response = NoResponse
  /\ opt_result = NoResult

OptIdle ==
  /\ opt_pc = "idle"
  /\ opt_raw = <<>>
  /\ opt_staples = <<>>
  /\ opt_prefs = [substitutions |-> <<>>, organic |-> <<>>]
  /\ opt_response = NoResponse
  /\ opt_result = NoResult

\* ShoppingListOptimizerNative.optimize_shopping_list(raw_ingredients,
\* organic_preferences, substitutions, staples), for one classifier outcome
OptimizeNative ==
  /\ opt_pc = "start"
  /\ \E response \in Responses :
       /\ opt_response' = response
       /\ opt_result' = NativeOptimize(response, opt_raw, opt_staples)
  /\ opt_pc' = "native"
  /\ UNCHANGED <<opt_raw, opt_staples, opt_prefs>>
  /\ UNCHANGED other_than_opt

\* ShoppingListOptimizer.optimize_shopping_list(...), likewise
OptimizeLangChain ==
  /\ opt_pc = "start"
  /\ \E response \in Responses :
       /\ opt_response' = response
       /\ opt_result' = LangChainOptimize(response, opt_raw, opt_staples)
  /\ opt_pc' = "langchain"
  /\ UNCHANGED <<opt_raw, opt_staples, opt_prefs>>
  /\ UNCHANGED other_than_opt

\* SmartShoppingListGenerator.generate_optimized_list(raw_ingredients,
\* organic_preferences, substitutions, staples)
GenerateOptimizedList ==
  /\ opt_pc = "start"
  /\ opt_result' = generate_optimized_list(opt_raw, opt_prefs.organic,
                                           opt_prefs.substitutions, opt_staples)
  /\ opt_pc' = "deterministic"
  /\ UNCHANGED <<opt_raw, opt_staples, opt_prefs, opt_response>>
  /\ UNCHANGED other_than_opt

OptNext ==
  \/ OptimizeNative
  \/ OptimizeLangChain
  \/ GenerateOptimizedList
(***************************************************************************)
(* ShoppingListMatcher (shopping_list_matcher.py): search_product and      *)
(* match_shopping_list                                                     *)
(***************************************************************************)

\* A JSON number that may be missing or null: product.get('Price').  Prices
\* are in cents.
NoPrice == [null |-> TRUE, cents |-> 0]

PriceOf(cents) == [null |-> FALSE, cents |-> cents]

\* product.get('Price') or 0
PriceOrZero(price) == IF price.null THEN 0 ELSE price.cents

\* What the catalog does with one search:
\*   "exception"   requests.post raises (connection error, timeout);
\*   "status"      a response whose status_code is not 200;
\*   "bad_json"    response.json() raises;
\*   "no_success"  success is false or missing;
\*   "no_products" products is empty or missing;
\*   "no_inner"    the first result has no 'Products' or an empty list;
\*   "match"       the first product of the first result, with its Price.
CatalogKinds ==
  { "exception", "status", "bad_json", "no_success", "no_products", "no_inner", "match" }

CatalogResponse(kind, price) == [kind |-> kind, price |-> price]

\* search_product returns None.
NoMatch == [matched |-> FALSE]

\* An exception that leaves search_product.
Raised == [matched |-> FALSE, raised |-> TRUE]

\* search_product with its try/except left out: an exception in the body
\* leaves the function.
search_product_uncaught(ingredient, quantity, unit, response) ==
  CASE response.kind \in {"exception", "bad_json"} -> Raised
    [] response.kind \in {"status", "no_success", "no_products", "no_inner"} -> NoMatch
    [] response.kind = "match" ->
         [ingredient |-> ingredient, quantity |-> quantity, unit |-> unit,
          matched |-> TRUE, price |-> PriceOrZero(response.price)]

\* ShoppingListMatcher.search_product: every exception of the body is caught
\* and gives None.
search_product(ingredient, quantity, unit, response) ==
  CASE response.kind \in {"exception", "bad_json"} -> NoMatch
    [] response.kind \in {"status", "no_success", "no_products", "no_inner"} -> NoMatch
    [] response.kind = "match" ->
         [ingredient |-> ingredient, quantity |-> quantity, unit |-> unit,
          matched |-> TRUE, price |-> PriceOrZero(response.price)]

\* A shopping list item as match_shopping_list reads it.
MatchItem(ingredient_name, name, quantity, unit, category) ==
  [ingredient_name |-> ingredient_name, name |-> name, quantity |-> quantity,
   unit |-> unit, category |-> category]

\* item.get('ingredient_name') or item.get('name', '')
MatchIngredient(item) ==
  IF item.ingredient_name \notin {Absent, <<>>} THEN item.ingredient_name
  ELSE IF item.name = Absent THEN <<>> ELSE item.name

\* match_shopping_list was left by an exception: there is no report.
NoReport == [returned |-> FALSE]

\* len(matched_items) / len(shopping_list_items) * 100, kept as the exact
\* fraction (numerator, denominator); 0 for the empty list.
MatchRate(total_matched, total_items) ==
  IF total_items = 0 THEN <<0, 1>> ELSE <<total_matched * 100, total_items>>

\* ShoppingListMatcher.match_shopping_list; responses[i] is what the catalog
\* does with the search for the i-th item.  src is not a field of the
\* program: it is the position of the item an entry was made for.
match_shopping_list(shopping_list_items, responses) ==
  LET n == Len(shopping_list_items)
      found == [i \in 1..n |->
                  search_product(MatchIngredient(shopping_list_items[i]),
                                 shopping_list_items[i].quantity,
                                 shopping_list_items[i].unit, responses[i])]
      loop[i \in 0..n] ==
        IF i = 0
        THEN [matched_items |-> <<>>, unmatched_items |-> <<>>, total_cost |-> 0,
              raised |-> FALSE]
        ELSE LET acc == loop[i - 1]
                 item == shopping_list_items[i]
                 category == IF item.category = Absent THEN <<"O","t","h","e","r">> ELSE item.category
             IN  IF acc.raised \/ found[i] = Raised
                 THEN [acc EXCEPT !.raised = TRUE]
                 ELSE IF found[i].matched
                 THEN [acc EXCEPT
                         !.matched_items =
                           Append(@, [ingredient |-> found[i].ingredient,
                                      quantity |-> found[i].quantity,
                                      unit |-> found[i].unit,
                                      matched |-> TRUE,
                                      price |-> found[i].price,
                                      category |-> category,
                                      original_quantity |-> item.quantity,
                                      original_unit |-> item.unit,
                                      src |-> i]),
                         !.total_cost = @ + found[i].price]
                 ELSE [acc EXCEPT
                         !.unmatched_items =
                           Append(@, [ingredient |-> MatchIngredient(item),
                                      quantity |-> item.quantity,
                                      unit |-> item.unit,
                                      category |-> category,
                                      matched |-> FALSE,
                                      src |-> i])]
      end == loop[n]
  IN  IF end.raised THEN NoReport
      ELSE [returned |-> TRUE,
            matched_items |-> end.matched_items,
            unmatched_items |-> end.unmatched_items,
            total_matched |-> Len(end.matched_items),
            total_unmatched |-> Len(end.unmatched_items),
            total_items |-> n,
            estimated_cost |-> end.total_cost,
            match_rate |-> MatchRate(Len(end.matched_items), n)]

\* ---- inputs ----
MaxMatchItems == 3

MatchItemPool ==
  { MatchItem(<<"m","i","l","k">>, Absent, <<"2">>, <<"L">>, <<"D","a","i","r","y"," ","&"," ","E","g","g","s">>),
    MatchItem(Absent, <<"e","g","g","s">>, <<"1","2">>, <<>>, Absent),
    MatchItem(<<>>, Absent, <<>>, <<>>, <<"O","t","h","e","r">>) }

CatalogResponses ==
  { CatalogResponse(kind, NoPrice) : kind \in CatalogKinds \ {"match"} }
    \cup { CatalogResponse("match", price) : price \in {NoPrice, PriceOf(0), PriceOf(350), PriceOf(125)} }

MtInit ==
  /\ mt_pc = "start"
  /\ \E n \in 0..MaxMatchItems : mt_items \in [1..n -> MatchItemPool]
  /\ mt_responses = <<>>
  /\ mt_report = NoReport

MtIdle ==
  /\ mt_pc = "idle"
  /\ mt_items = <<>>
  /\ mt_responses = <<>>
  /\ mt_report = NoReport

\* ShoppingListMatcher.match_shopping_list(shopping_list_items), for one
\* pattern of catalog outcomes
MatchShoppingList ==
  /\ mt_pc = "start"
  /\ \E responses \in [1..Len(mt_items) -> CatalogResponses] :
       /\ mt_responses' = responses
       /\ mt_report' = match_shopping_list(mt_items, responses)
  /\ mt_pc' = "done"
  /\ UNCHANGED mt_items
  /\ UNCHANGED other_than_mt

MtNext == MatchShoppingList

(***************************************************************************)
(* PreferredProductsManager (preferred_products_manager.py): the key of a  *)
(* preference                                                              *)
(***************************************************************************)

LowerLetters ==
  { "a", "b", "c", "d", "e", "f", "g", "h", "i", "j", "k", "l", "m",
    "n", "o", "p", "q", "r", "s", "t", "u", "v", "w", "x", "y", "z" }

\* \w of a regular expression on the characters of the model
WordChar(c) == LowerChar(c) \in LowerLetters \/ IsDigit(c) \/ c = "_"

\* re.sub(r'\s+', ' ', s)
RECURSIVE CollapseSpaces(_)
CollapseSpaces(s) ==
  IF Len(s) < 2 THEN s
  ELSE IF s[1] = " " /\ s[2] = " " THEN CollapseSpaces(Tail(s))
  ELSE <<s[1]>> \o CollapseSpaces(Tail(s))

\* The words of (organic|fresh|frozen|dried)
Qualifiers == { <<"o","r","g","a","n","i","c">>, <<"f","r","e","s","h">>, <<"f","r","o","z","e","n">>, <<"d","r","i","e","d">> }

\* \b holds in front of position i of s
WordBoundary(s, i) ==
  LET InWord(k) == k >= 1 /\ k <= Len(s) /\ WordChar(s[k])
  IN  InWord(i - 1) # InWord(i)

\* re.sub(r'\b(organic|fresh|frozen|dried)\b', '', s) from position p on
RECURSIVE DropQualifiers(_, _)
DropQualifiers(s, p) ==
  IF p > Len(s) THEN <<>>
  ELSE LET matches == { w \in Qualifiers :
                          /\ p + Len(w) - 1 <= Len(s)
                          /\ SubSeq(s, p, p + Len(w) - 1) = w
                          /\ WordBoundary(s, p)
                          /\ WordBoundary(s, p + Len(w)) }
       IN  IF matches # {}
           THEN DropQualifiers(s, p + Len(CHOOSE w \in matches : TRUE))
           ELSE <<s[p]>> \o DropQualifiers(s, p + 1)

\* PreferredProductsManager._normalize_ingredient
_normalize_ingredient(ingredient) ==
  Strip(DropQualifiers(CollapseSpaces(Strip(Lower(ingredient))), 1))

(***************************************************************************)
(* The chat editor: ShoppingListChatAgent (shopping_chat_agent_native.py)  *)
(* and the shopping_chat route of flask_app.py that stores its result in   *)
(* the session                                                             *)
(***************************************************************************)

\* An item dict of the session's list: {'item': ..., 'quantity': ...,
\* 'notes': ...}.
ListItem(item, quantity) ==
  [dict |-> TRUE, item |-> item, quantity |-> quantity, notes |-> ""]

\* An item of the list that is a plain string.
TextItem(text) == [dict |-> FALSE, item |-> text, quantity |-> <<>>, notes |-> ""]

\* item.get('item', item.get('name', '')).lower() of a dict, str(item).lower()
\* of anything else.
ItemNameLower(item) == Lower(item.item)

\* One line of the changes: what the line says and the values its text
\* names.
Change(kind, about) == [kind |-> kind, about |-> about]

\* The tool_use blocks of a response.  Every block carries the keys of all
\* tools; a tool reads its own.
ToolCall(name) ==
  [name |-> name, items |-> <<>>, item_names |-> <<>>, item_name |-> PyNone,
   new_quantity |-> <<>>, query |-> <<>>, ingredient |-> <<>>, stockcode |-> <<>>]

\* An element of the items of add_items; name and category are Absent when
\* the key is missing.
NewItem(name, quantity, category) ==
  [name |-> name, quantity |-> quantity, category |-> category]

add_items(items) == [ToolCall("add_items") EXCEPT !.items = items]

remove_items(item_names) == [ToolCall("remove_items") EXCEPT !.item_names = item_names]

modify_quantity(item_name, new_quantity) ==
  [ToolCall("modify_quantity") EXCEPT !.item_name = item_name,
                                      !.new_quantity = new_quantity]

search_woolworths(query) == [ToolCall("search_woolworths") EXCEPT !.query = query]

set_preferred_product(ingredient, stockcode) ==
  [ToolCall("set_preferred_product") EXCEPT !.ingredient = ingredient,
                                            !.stockcode = stockcode]

get_preferred_products == ToolCall("get_preferred_products")

remove_preferred_product(ingredient) ==
  [ToolCall("remove_preferred_product") EXCEPT !.ingredient = ingredient]

\* The position of a category in the dict, 0 when it is not a key.
CategoryIndex(list, category) ==
  IF \E c \in 1..Len(list) : list[c].category = category
  THEN CHOOSE c \in 1..Len(list) : list[c].category = category
  ELSE 0

\* The working state of _process_response at its start: updated_list, the
\* preference store, action_type, changes, and whether an exception has
\* left the method.
Working(list, prefs) ==
  [list |-> list, prefs |-> prefs, action |-> "none", changes |-> <<>>,
   raised |-> FALSE]

\* One element of add_items: the category is created if it is not a key,
\* then item["name"] raises KeyError when the name is missing.
AddItem(w, item) ==
  LET category == IF item.category = Absent THEN <<"O","t","h","e","r">> ELSE item.category
      created == IF CategoryIndex(w.list, category) = 0
                 THEN Append(w.list, [category |-> category, items |-> <<>>])
                 ELSE w.list
      at == CategoryIndex(created, category)
  IN  IF w.raised THEN w
      ELSE IF item.name = Absent
      THEN [w EXCEPT !.list = created, !.raised = TRUE]
      ELSE [w EXCEPT
              !.list = [created EXCEPT ![at].items =
                          Append(@, ListItem(item.name,
                                             IF item.quantity = Absent THEN <<>>
                                             ELSE item.quantity))],
              !.changes = Append(@, Change("Added", <<item.name, category>>))]

\* The add_items branch
AddItems(w, tool_input) ==
  LET loop[i \in 0..Len(tool_input.items)] ==
        IF i = 0 THEN [w EXCEPT !.action = "add"]
        ELSE AddItem(loop[i - 1], tool_input.items[i])
  IN  loop[Len(tool_input.items)]

\* if item_name.lower() in name
Matches(item_name, item) == Contains(Lower(item_name), ItemNameLower(item))

\* The first item of a category that the name matches, 0 when none does.
FirstNamed(items, item_name) ==
  IF \E i \in 1..Len(items) : Matches(item_name, items[i])
  THEN Min({ i \in 1..Len(items) : Matches(item_name, items[i]) })
  ELSE 0

\* items.pop(i)
Pop(items, i) == SubSeq(items, 1, i - 1) \o SubSeq(items, i + 1, Len(items))

\* The loop over the categories for one requested name with the
\* 'if removed: break' left out: the first match of every category goes.
RemoveName_every_category(w, item_name) ==
  LET Hit(c) == FirstNamed(w.list[c].items, item_name)
      hits == { c \in 1..Len(w.list) : Hit(c) # 0 }
  IN  [w EXCEPT
         !.list = [c \in 1..Len(w.list) |->
                     IF c \in hits
                     THEN [w.list[c] EXCEPT !.items = Pop(@, Hit(c))]
                     ELSE w.list[c]],
         !.changes = @ \o [k \in 1..Cardinality(hits) |-> Change("Removed", <<item_name>>)]]

\* The loop over the categories for one requested name of remove_items:
\* the first match of the first category that has one is popped.
RemoveName(w, item_name) ==
  LET Hit(c) == FirstNamed(w.list[c].items, item_name)
      hits == { c \in 1..Len(w.list) : Hit(c) # 0 }
  IN  IF hits = {} THEN w
      ELSE [w EXCEPT
              !.list = [@ EXCEPT ![Min(hits)].items = Pop(@, Hit(Min(hits)))],
              !.changes = Append(@, Change("Removed", <<item_name>>))]

\* The remove_items branch
RemoveItems(w, tool_input) ==
  LET loop[i \in 0..Len(tool_input.item_names)] ==
        IF i = 0 THEN [w EXCEPT !.action = "remove"]
        ELSE RemoveName(loop[i - 1], tool_input.item_names[i])
  IN  loop[Len(tool_input.item_names)]

\* The first dict item of a category that the name matches, 0 when none
\* does; items that are not dicts are passed over.
FirstDictMatchIn(items, item_name) ==
  IF \E i \in 1..Len(items) : items[i].dict /\ Matches(item_name, items[i])
  THEN Min({ i \in 1..Len(items) : items[i].dict /\ Matches(item_name, items[i]) })
  ELSE 0

\* The modify_quantity branch.  The break leaves the loop over the items of
\* one category; the loop over the categories goes on.  A missing item_name
\* is None, and None.lower() raises at the first dict item.
ModifyQuantity(w, tool_input) ==
  LET item_name == tool_input.item_name
      new_qty == tool_input.new_quantity
      Hit(c) == FirstDictMatchIn(w.list[c].items, item_name)
      hits == { c \in 1..Len(w.list) : Hit(c) # 0 }
      any_dict == \E c \in 1..Len(w.list) :
                    \E i \in 1..Len(w.list[c].items) : w.list[c].items[i].dict
  IN  IF item_name = PyNone
      THEN [w EXCEPT !.action = "modify", !.raised = any_dict]
      ELSE [w EXCEPT
              !.action = "modify",
              !.list = [c \in 1..Len(w.list) |->
                          IF c \in hits
                          THEN [w.list[c] EXCEPT !.items[Hit(c)].quantity = new_qty]
                          ELSE w.list[c]],
              !.changes = @ \o [k \in 1..Cardinality(hits) |->
                                  Change("Changed quantity", <<item_name, new_qty>>)]]

\* The search_woolworths branch
SearchWoolworths(w, tool_input) ==
  [w EXCEPT !.action = "search",
            !.changes = Append(@, Change("Searching Woolworths", <<tool_input.query>>))]

\* What the services outside the process do during one turn:
\*   api      "raises" when client.messages.create raises;
\*   manager  "raises" when get_preferred_products_manager() or a call of
\*            the manager raises (no Firestore client);
\*   lookup   "found" when the catalog has details for the stockcode;
\*   write    whether the store write succeeds.
Services(api, manager, lookup, write) ==
  [api |-> api, manager |-> manager, lookup |-> lookup, write |-> write]

\* The keyword parameters of ShoppingListMatcher.__init__
MatcherParameters == { "mcp_url" }

\* ShoppingListMatcher(**keywords) raises TypeError for a keyword that is
\* not a parameter.
ShoppingListMatcherRaises(keywords) == ~(keywords \subseteq MatcherParameters)

\* str(e) of that TypeError
UnexpectedKeyword == <<"u","n","e","x","p","e","c","t","e","d"," ","k","e","y","w","o","r","d"," ","a","r","g","u","m","e","n","t">>

\* str(e) of an exception of the manager
ManagerError == <<"n","o"," ","c","l","i","e","n","t">>

\* A stored preference
Preference(ingredient_name, stockcode) ==
  [ingredient_name |-> ingredient_name, stockcode |-> stockcode]

\* manager.set_preferred_product in a single thread: the record of the key
\* is updated, or a record is added.
StorePreference(prefs, ingredient, stockcode) ==
  { p \in prefs : p.ingredient_name # _normalize_ingredient(ingredient) }
    \cup { Preference(_normalize_ingredient(ingredient), stockcode) }

\* The display name the catalog has for a stockcode
DisplayNameOf(stockcode) == <<"p","r","o","d","u","c","t"," ">>  \o stockcode

\* The set_preferred_product branch
SetPreferredProduct(w, tool_input, services) ==
  LET ingredient == tool_input.ingredient
      stockcode == tool_input.stockcode
      marked == [w EXCEPT !.action = "set_preferred"]
  IN  IF services.manager = "raises"
      THEN [marked EXCEPT !.changes =
              Append(@, Change("Error saving preference", <<ManagerError>>))]
      ELSE IF ShoppingListMatcherRaises({"use_preferences"})
      THEN [marked EXCEPT !.changes =
              Append(@, Change("Error saving preference", <<UnexpectedKeyword>>))]
      ELSE IF services.lookup = "found"
      THEN IF services.write
           THEN [marked EXCEPT
                   !.prefs = StorePreference(@, ingredient, stockcode),
                   !.changes = Append(@, Change("Saved preference",
                                                <<ingredient, DisplayNameOf(stockcode)>>))]
           ELSE [marked EXCEPT !.changes =
                   Append(@, Change("Failed to save preference", <<ingredient>>))]
      ELSE [marked EXCEPT !.changes =
              Append(@, Change("Could not find product details", <<stockcode>>))]

\* The get_preferred_products branch
GetPreferredProducts(w, services) ==
  [w EXCEPT
     !.action = "get_preferred",
     !.changes = Append(@,
        IF services.manager = "raises"
        THEN Change("Error getting preferences", <<ManagerError>>)
        ELSE IF w.prefs # {} THEN Change("Your preferred products", <<>>)
        ELSE Change("No preferred products saved yet", <<>>))]

\* The remove_preferred_product branch
RemovePreferredProduct(w, tool_input, services) ==
  LET ingredient == tool_input.ingredient
      stored == { p \in w.prefs : p.ingredient_name = _normalize_ingredient(ingredient) }
      marked == [w EXCEPT !.action = "remove_preferred"]
  IN  IF services.manager = "raises"
      THEN [marked EXCEPT !.changes =
              Append(@, Change("Error removing preference", <<ManagerError>>))]
      ELSE IF stored # {} /\ services.write
      THEN [marked EXCEPT !.prefs = @ \ stored,
                          !.changes = Append(@, Change("Removed preference", <<ingredient>>))]
      ELSE [marked EXCEPT !.changes =
              Append(@, Change("No preference found", <<ingredient>>))]

\* One pass of the loop over the tool calls
ExecuteTool(w, tool_call, services) ==
  IF w.raised THEN w
  ELSE CASE tool_call.name = "add_items" -> AddItems(w, tool_call)
         [] tool_call.name = "remove_items" -> RemoveItems(w, tool_call)
         [] tool_call.name = "modify_quantity" -> ModifyQuantity(w, tool_call)
         [] tool_call.name = "search_woolworths" -> SearchWoolworths(w, tool_call)
         [] tool_call.name = "set_preferred_product" ->
              SetPreferredProduct(w, tool_call, services)
         [] tool_call.name = "get_preferred_products" -> GetPreferredProducts(w, services)
         [] tool_call.name = "remove_preferred_product" ->
              RemovePreferredProduct(w, tool_call, services)
         [] OTHER -> w

\* A value that is a dict of categories or None.
PyDict(categories) == [null |-> FALSE, categories |-> categories]

NoneList == [null |-> TRUE, categories |-> <<>>]

\* The dict chat() answers with in its except branch
ErrorResult ==
  [action |-> "none", keys |-> {"response", "action", "changes_made"},
   updated_list |-> NoneList, changes_made |-> <<>>]

\* The dict _process_response answers with when there is no tool call
PlainResult == ErrorResult

\* What a call leaves behind: its result, whether it raised, the dict it was
\* given as the call left it, and the preference store.
Outcome(result, raised, passed, prefs) ==
  [result |-> result, raised |-> raised, passed |-> passed, prefs |-> prefs]

\* The loop over the tool_use blocks of the response
ExecuteTools(tool_calls, current_shopping_list, services, prefs) ==
  LET loop[i \in 0..Len(tool_calls)] ==
        IF i = 0 THEN Working(current_shopping_list.categories, prefs)
        ELSE ExecuteTool(loop[i - 1], tool_calls[i], services)
  IN  loop[Len(tool_calls)]

\* The dict _process_response returns after the loop has ended in state
\* end.  updated_list is a shallow copy: the item lists of the categories
\* the given dict has are the given dict's own, so what is appended to,
\* popped from or assigned in them is changed in the given dict as well; a
\* category added to the copy is not.
Processed(end, current_shopping_list) ==
  Outcome([action |-> end.action,
           keys |-> {"response", "action", "updated_list", "changes_made",
                     "tool_calls"},
           updated_list |-> IF end.action \in {"add", "remove", "modify"}
                            THEN PyDict(end.list) ELSE NoneList,
           changes_made |-> end.changes],
          end.raised,
          PyDict(SubSeq(end.list, 1, Len(current_shopping_list.categories))),
          end.prefs)

\* ShoppingListChatAgent._process_response
_process_response(tool_calls, current_shopping_list, services, prefs) ==
  IF tool_calls = <<>>
  THEN Outcome(PlainResult, FALSE, current_shopping_list, prefs)
  ELSE IF current_shopping_list.null
  THEN Outcome(ErrorResult, TRUE, current_shopping_list, prefs)
  ELSE Processed(ExecuteTools(tool_calls, current_shopping_list, services, prefs),
                 current_shopping_list)

\* One turn: the tool_use blocks of the response and what the services do.
Turn(tool_calls, services) == [tool_calls |-> tool_calls, services |-> services]

\* The try/except of chat() around what _process_response left behind
Caught(processed, turn, current_shopping_list, prefs) ==
  IF turn.services.api = "raises"
  THEN Outcome(ErrorResult, FALSE, current_shopping_list, prefs)
  ELSE IF processed.raised
  THEN [processed EXCEPT !.result = ErrorResult, !.raised = FALSE]
  ELSE processed

\* ShoppingListChatAgent.chat
chat(turn, current_shopping_list, prefs) ==
  Caught(_process_response(turn.tool_calls, current_shopping_list,
                           turn.services, prefs),
         turn, current_shopping_list, prefs)

\* What one request of shopping_chat leaves behind: the HTTP status, the
\* shopping list of the stored session, the result of chat(), the dict that
\* was passed to chat(), the preference store of the manager and the rows
\* the route wrote to the preferred_products table.
Served(status, session, result, passed, prefs, table) ==
  [status |-> status, session |-> session, result |-> result, passed |-> passed,
   prefs |-> prefs, table |-> table]

\* The shopping_chat route for a session that has a chat agent.  The session
\* is the signed cookie of Flask: it is written back at the end of the
\* request when a key of it was assigned (session.modified), with the
\* objects it then holds.  has_id is whether the session has a session_id;
\* a session without one is assigned one.  session.get(
\* 'shopping_list_categories', {}) of a session without a list is {}.
Respond(after, session, has_id, turn, prefs, table) ==
  LET result == after.result
      set_preferred == result.action = "set_preferred"
      has_keys == {"stockcode", "ingredient"} \subseteq result.keys
      assigned == /\ ~set_preferred
                  /\ result.action # "none"
                  /\ "updated_list" \in result.keys
      held == IF assigned THEN result.updated_list ELSE after.passed
      modified == ~has_id \/ assigned
      written == IF set_preferred /\ has_keys /\ turn.services.lookup = "found"
                 THEN { r \in table : r.ingredient_name # result.ingredient }
                        \cup { Preference(result.ingredient, result.stockcode) }
                 ELSE table
  IN  IF session.null
      THEN \* len(None) raises: the except branch of the route answers 500
           Served(500, session, ErrorResult, session, prefs, table)
      ELSE Served(200, IF modified THEN held ELSE session, result, after.passed,
                  after.prefs, written)

\* POST /api/shopping-chat, from the session to the response
shopping_chat(session, has_id, turn, prefs, table) ==
  Respond(chat(turn, session, prefs), session, has_id, turn, prefs, table)

\* ---- inputs ----
MaxToolCalls == 2

\* The shopping lists of a session: none, and one of two categories.
ChatLists ==
  { <<>>,
    << [category |-> <<"O","t","h","e","r">>, items |-> << TextItem(<<"M","i","l","k">>) >>] >>,
    << [category |-> <<"D","a","i","r","y"," ","&"," ","E","g","g","s">>,
        items |-> << ListItem(<<"m","i","l","k">>, <<"2","L">>), ListItem(<<"a","l","m","o","n","d"," ","m","i","l","k">>, <<"1","L">>) >>],
       [category |-> <<"P","a","n","t","r","y">>,
        items |-> << ListItem(<<"M","i","l","k"," ","p","o","w","d","e","r">>, <<"1">>), TextItem(<<"f","l","o","u","r">>) >>] >> }

\* The tool calls of the assistant.
ToolCalls ==
  { add_items(<< NewItem(<<"e","g","g","s">>, <<"1","2">>, <<"D","a","i","r","y"," ","&"," ","E","g","g","s">>) >>),
    add_items(<< NewItem(<<"r","i","c","e">>, Absent, Absent) >>),
    add_items(<< NewItem(<<"t","e","a">>, <<"1">>, <<"P","a","n","t","r","y">>), NewItem(Absent, <<"1">>, <<"T","e","a">>) >>),
    remove_items(<< <<"m","i","l","k">> >>),
    remove_items(<< <<"M","i","l","k">>, <<"M","I","L","K">> >>),
    remove_items(<< <<"s","a","l","t">> >>),
    modify_quantity(<<"m","i","l","k">>, <<"3","L">>),
    modify_quantity(<<"f","l","o","u","r">>, <<"1","k","g">>),
    modify_quantity(PyNone, <<"3","L">>),
    search_woolworths(<<"m","i","l","k">>),
    set_preferred_product(<<"F","r","e","s","h"," "," ","M","i","l","k">>, <<"1","2","3">>),
    get_preferred_products,
    remove_preferred_product(<<"m","i","l","k">>) }

\* What the services do in a turn.
ServiceCases ==
  { Services("ok", "ok", "found", TRUE),
    Services("raises", "ok", "found", TRUE),
    Services("ok", "raises", "found", TRUE),
    Services("ok", "ok", "none", TRUE),
    Services("ok", "ok", "found", FALSE) }

\* The stored preferences before the turn.
StoredPreferences == { {}, { Preference(<<"m","i","l","k">>, <<"1","0","0">>) } }

NoTurn == Turn(<<>>, Services("none", "none", "none", FALSE))

NotServed == Served(0, NoneList, ErrorResult, NoneList, {}, {})

ChatInit ==
  /\ ch_pc = "ready"
  /\ ch_session \in { PyDict(list) : list \in ChatLists }
  /\ ch_has_id \in BOOLEAN
  /\ ch_prefs \in StoredPreferences
  /\ ch_table = {}
  /\ ch_turn = NoTurn
  /\ ch_served = NotServed
  /\ ch_before = ch_session

ChatIdle ==
  /\ ch_pc = "idle"
  /\ ch_session = NoneList
  /\ ch_has_id = FALSE
  /\ ch_prefs = {}
  /\ ch_table = {}
  /\ ch_turn = NoTurn
  /\ ch_served = NotServed
  /\ ch_before = NoneList

\* POST /api/shopping-chat: one request, for one answer of the assistant.
\* ch_before keeps the shopping list the session had when the request came.
ShoppingChat ==
  /\ ch_pc = "ready"
  /\ ch_before' = ch_session
  /\ \E n \in 0..MaxToolCalls :
       \E tool_calls \in [1..n -> ToolCalls], services \in ServiceCases :
         \E served \in { shopping_chat(ch_session, ch_has_id,
                                        Turn(tool_calls, services),
                                        ch_prefs, ch_table) } :
           /\ ch_turn' = Turn(tool_calls, services)
           /\ ch_served' = served
           /\ ch_session' = served.session
           /\ ch_prefs' = served.prefs
           /\ ch_table' = served.table
  /\ ch_has_id' = TRUE
  /\ ch_pc' = "served"
  /\ UNCHANGED other_than_ch

ChatNext == ShoppingChat
(***************************************************************************)
(* PreferredProductsManager (preferred_products_manager.py) on its         *)
(* Firestore collection, called by concurrent workers                      *)
(***************************************************************************)

\* A document of the collection preferred_products.  id is the document's
\* auto-generated id; the times are server timestamps.
PreferenceDoc(id, ingredient_name, stockcode, use_count, added_date, last_updated) ==
  [id |-> id, user_id |-> "default", ingredient_name |-> ingredient_name,
   stockcode |-> stockcode, use_count |-> use_count, added_date |-> added_date,
   last_updated |-> last_updated]

\* The documents the query of _get_preference_doc ranges over:
\* where('user_id', '==', user_id).where('ingredient_name', '==',
\* normalized_name)
DocsOfKey(docs, user_id, normalized_name) ==
  { doc \in docs : doc.user_id = user_id /\ doc.ingredient_name = normalized_name }

\* _get_preference_doc: .limit(1).stream() gives one of the documents of
\* the key, or None (0) when there is none.  The query has no order_by;
\* which of several documents it gives is the store's choice.
_get_preference_doc(docs, user_id, normalized_name) ==
  IF DocsOfKey(docs, user_id, normalized_name) = {} THEN {0}
  ELSE { doc.id : doc \in DocsOfKey(docs, user_id, normalized_name) }

\* A call of the manager by a worker: op is "set" or "get".
Call(op, ingredient_name, stockcode) ==
  [op |-> op, ingredient_name |-> ingredient_name, stockcode |-> stockcode,
   pc |-> "start", ref |-> 0, result |-> "pending"]

\* existing['ref'].update(data): the fields of data replace those of the
\* document; use_count and added_date are not in data.
UpdateDoc(docs, id, stockcode, now) ==
  { IF doc.id = id THEN [doc EXCEPT !.stockcode = stockcode, !.last_updated = now]
    ELSE doc : doc \in docs }

\* self.db.collection(...).add(data) with added_date and use_count = 0
AddDoc(docs, normalized_name, stockcode, now) ==
  docs \cup { PreferenceDoc(Cardinality(docs) + 1, normalized_name, stockcode, 0, now, now) }

\* doc['ref'].update({'use_count': firestore.Increment(1), ...}): the
\* increment is applied by the store to the value the document has.
IncrementDoc(docs, id) ==
  { IF doc.id = id THEN [doc EXCEPT !.use_count = @ + 1] ELSE doc : doc \in docs }

\* ---- inputs ----
Workers == 3

\* The calls the workers make.
Calls ==
  { Call("set", <<"m","i","l","k">>, 101),
    Call("set", <<"F","r","e","s","h"," "," ","M","i","l","k">>, 102),
    Call("set", <<"e","g","g","s">>, 201),
    Call("get", <<"M","i","l","k"," ">>, 0),
    Call("get", <<"e","g","g","s">>, 0) }

\* The collection before the calls: empty, or a preference for milk that
\* was used twice.
StoredDocs == { {}, { PreferenceDoc(1, <<"m","i","l","k">>, 100, 2, 0, 0) } }

PpInit ==
  /\ pp_docs \in StoredDocs
  /\ pp_initial = pp_docs
  /\ pp_call \in [1..Workers -> Calls]
  /\ pp_now = 1

PpIdle ==
  /\ pp_docs = {}
  /\ pp_initial = {}
  /\ pp_call = <<>>
  /\ pp_now = 0

\* set_preferred_product up to `existing = self._get_preference_doc(...)`
SetRead(w) ==
  /\ pp_call[w].op = "set" /\ pp_call[w].pc = "start"
  /\ \E ref \in _get_preference_doc(pp_docs, "default",
                                    _normalize_ingredient(pp_call[w].ingredient_name)) :
       pp_call' = [pp_call EXCEPT ![w].pc = "read", ![w].ref = ref]
  /\ UNCHANGED <<pp_docs, pp_initial, pp_now>>
  /\ UNCHANGED other_than_pp

\* set_preferred_product from `if existing:` on
SetWrite(w) ==
  /\ pp_call[w].op = "set" /\ pp_call[w].pc = "read"
  /\ pp_docs' = IF pp_call[w].ref # 0
                THEN UpdateDoc(pp_docs, pp_call[w].ref, pp_call[w].stockcode, pp_now)
                ELSE AddDoc(pp_docs, _normalize_ingredient(pp_call[w].ingredient_name),
                            pp_call[w].stockcode, pp_now)
  /\ pp_now' = pp_now + 1
  /\ pp_call' = [pp_call EXCEPT ![w].pc = "done", ![w].result = "True"]
  /\ UNCHANGED pp_initial
  /\ UNCHANGED other_than_pp

\* get_preferred_product up to `doc = self._get_preference_doc(...)`; with
\* no document it returns None.
GetRead(w) ==
  /\ pp_call[w].op = "get" /\ pp_call[w].pc = "start"
  /\ \E ref \in _get_preference_doc(pp_docs, "default",
                                    _normalize_ingredient(pp_call[w].ingredient_name)) :
       pp_call' = [pp_call EXCEPT
                     ![w].pc = IF ref = 0 THEN "done" ELSE "read",
                     ![w].ref = ref,
                     ![w].result = IF ref = 0 THEN "None" ELSE "pending"]
  /\ UNCHANGED <<pp_docs, pp_initial, pp_now>>
  /\ UNCHANGED other_than_pp

\* get_preferred_product from `if doc:` on
GetWrite(w) ==
  /\ pp_call[w].op = "get" /\ pp_call[w].pc = "read"
  /\ pp_docs' = IncrementDoc(pp_docs, pp_call[w].ref)
  /\ pp_now' = pp_now + 1
  /\ pp_call' = [pp_call EXCEPT ![w].pc = "done", ![w].result = "product"]
  /\ UNCHANGED pp_initial
  /\ UNCHANGED other_than_pp

PpNext ==
  \E w \in 1..Workers : SetRead(w) \/ SetWrite(w) \/ GetRead(w) \/ GetWrite(w)
(***************************************************************************)
(* The other stores of preferred products: the preferred_products table    *)
(* behind /api/set-preferred-product (flask_app.py, schema of database.py) *)
(* and FirestoreManager (firestore_manager.py)                             *)
(***************************************************************************)

\* A row of the table, or a document of FirestoreManager's collection.
StoredProduct(id, ingredient, stockcode, created_at) ==
  [id |-> id, ingredient |-> ingredient, stockcode |-> stockcode,
   created_at |-> created_at]

\* id INTEGER PRIMARY KEY AUTOINCREMENT, and the auto-generated id of a
\* document: an id that was not used before.
FreshId(records) == Max({0} \cup { r.id : r \in records }) + 1

\* INSERT OR REPLACE INTO preferred_products (...) VALUES (...): the row
\* that has the ingredient (UNIQUE) is deleted and a row is inserted;
\* created_at gets its default, CURRENT_TIMESTAMP.
InsertOrReplace(rows, ingredient, stockcode, now) ==
  { r \in rows : r.ingredient # ingredient }
    \cup { StoredProduct(FreshId(rows), ingredient, stockcode, now) }

\* INSERT ... ON CONFLICT (ingredient) DO UPDATE SET product_name = ...,
\* stockcode = ..., ...: created_at is not among the columns set.
InsertOnConflictUpdate(rows, ingredient, stockcode, now) ==
  IF \E r \in rows : r.ingredient = ingredient
  THEN { IF r.ingredient = ingredient THEN [r EXCEPT !.stockcode = stockcode] ELSE r :
         r \in rows }
  ELSE rows \cup { StoredProduct(FreshId(rows), ingredient, stockcode, now) }

\* The statement of the set_preferred_product route for db.db_type
set_preferred_product_route(db_type, rows, ingredient, stockcode, now) ==
  IF db_type = "postgresql"
  THEN InsertOnConflictUpdate(rows, ingredient, stockcode, now)
  ELSE InsertOrReplace(rows, ingredient, stockcode, now)

\* FirestoreManager.get_preferred_product: a document whose ingredient is
\* the given one, else a document whose ingredient contains it whatever the
\* case of the letters, else None (0).  The queries have no order.
FirestoreGet(docs, ingredient) ==
  LET exact == { doc \in docs : doc.ingredient = ingredient }
      partial == { doc \in docs : Contains(Lower(ingredient), Lower(doc.ingredient)) }
  IN  IF exact # {} THEN { doc.id : doc \in exact }
      ELSE IF partial # {} THEN { doc.id : doc \in partial }
      ELSE {0}

\* FirestoreManager.set_preferred_product from `if existing:` on.  A
\* document that is updated keeps the created_at that was read.
FirestoreWrite(docs, existing, created_at, ingredient, stockcode, now) ==
  IF existing # 0
  THEN { IF doc.id = existing
         THEN [doc EXCEPT !.ingredient = ingredient, !.stockcode = stockcode,
                          !.created_at = created_at]
         ELSE doc : doc \in docs }
  ELSE docs \cup { StoredProduct(FreshId(docs), ingredient, stockcode, now) }

\* FirestoreManager.remove_preferred_product from `if product:` on
FirestoreDelete(docs, existing) == { doc \in docs : doc.id # existing }

\* A request of a client: through the route ("table"), or a call of
\* FirestoreManager.set_preferred_product ("firestore") or of
\* FirestoreManager.remove_preferred_product ("firestore_remove").
Request(path, ingredient, stockcode) ==
  [path |-> path, ingredient |-> ingredient, stockcode |-> stockcode,
   pc |-> "start", existing |-> 0, created_at |-> 0]

\* ---- inputs ----
Clients == 2

Requests ==
  { Request(path, ingredient, stockcode) :
      path \in {"table", "firestore"},
      ingredient \in { <<"m","i","l","k">>, <<"M","i","l","k">>, <<"a","l","m","o","n","d"," ","m","i","l","k">> },
      stockcode \in {101, 102} }
  \cup { Request("firestore_remove", ingredient, 0) :
           ingredient \in { <<"m","i","l","k">>, <<"a","l","m","o","n","d"," ","m","i","l","k">> } }

\* What the table holds before the requests.
StoredProducts == { {}, { StoredProduct(1, <<"m","i","l","k">>, 100, 0) } }

\* What the collection holds before the requests.
StoredDocuments ==
  StoredProducts
    \cup { { StoredProduct(1, <<"a","l","m","o","n","d"," ","m","i","l","k">>, 100, 0) },
           { StoredProduct(1, <<"a","l","m","o","n","d"," ","m","i","l","k">>, 100, 0), StoredProduct(2, <<"m","i","l","k">>, 100, 0) } }

WsInit ==
  /\ ws_db_type \in {"sqlite", "postgresql"}
  /\ ws_rows \in StoredProducts
  /\ ws_docs \in StoredDocuments
  /\ ws_request \in [1..Clients -> Requests]
  /\ ws_now = 1

WsIdle ==
  /\ ws_db_type = "none"
  /\ ws_rows = {}
  /\ ws_docs = {}
  /\ ws_request = <<>>
  /\ ws_now = 0

\* POST /api/set-preferred-product: one statement
SetPreferredProductRoute(c) ==
  /\ ws_request[c].path = "table" /\ ws_request[c].pc = "start"
  /\ ws_rows' = set_preferred_product_route(ws_db_type, ws_rows, ws_request[c].ingredient,
                                            ws_request[c].stockcode, ws_now)
  /\ ws_now' = ws_now + 1
  /\ ws_request' = [ws_request EXCEPT ![c].pc = "done"]
  /\ UNCHANGED <<ws_db_type, ws_docs>>
  /\ UNCHANGED other_than_ws

\* FirestoreManager.set_preferred_product up to
\* `existing = self.get_preferred_product(ingredient)`
FirestoreSetRead(c) ==
  /\ ws_request[c].path = "firestore" /\ ws_request[c].pc = "start"
  /\ \E id \in FirestoreGet(ws_docs, ws_request[c].ingredient) :
       ws_request' = [ws_request EXCEPT
                        ![c].pc = "read",
                        ![c].existing = id,
                        ![c].created_at =
                           IF id = 0 THEN 0
                           ELSE (CHOOSE doc \in ws_docs : doc.id = id).created_at]
  /\ UNCHANGED <<ws_db_type, ws_rows, ws_docs, ws_now>>
  /\ UNCHANGED other_than_ws

\* FirestoreManager.set_preferred_product from `if existing:` on
FirestoreSetWrite(c) ==
  /\ ws_request[c].path = "firestore" /\ ws_request[c].pc = "read"
  /\ ws_docs' = FirestoreWrite(ws_docs, ws_request[c].existing, ws_request[c].created_at,
                               ws_request[c].ingredient, ws_request[c].stockcode, ws_now)
  /\ ws_now' = ws_now + 1
  /\ ws_request' = [ws_request EXCEPT ![c].pc = "done"]
  /\ UNCHANGED <<ws_db_type, ws_rows>>
  /\ UNCHANGED other_than_ws

\* FirestoreManager.remove_preferred_product up to
\* `product = self.get_preferred_product(ingredient)`
FirestoreRemoveRead(c) ==
  /\ ws_request[c].path = "firestore_remove" /\ ws_request[c].pc = "start"
  /\ \E id \in FirestoreGet(ws_docs, ws_request[c].ingredient) :
       ws_request' = [ws_request EXCEPT ![c].pc = "read", ![c].existing = id]
  /\ UNCHANGED <<ws_db_type, ws_rows, ws_docs, ws_now>>
  /\ UNCHANGED other_than_ws

\* FirestoreManager.remove_preferred_product from `if product:` on
FirestoreRemoveDelete(c) ==
  /\ ws_request[c].path = "firestore_remove" /\ ws_request[c].pc = "read"
  /\ ws_docs' = FirestoreDelete(ws_docs, ws_request[c].existing)
  /\ ws_request' = [ws_request EXCEPT ![c].pc = "done"]
  /\ UNCHANGED <<ws_db_type, ws_rows, ws_now>>
  /\ UNCHANGED other_than_ws

WsNext ==
  \E c \in 1..Clients :
    \/ SetPreferredProductRoute(c)
    \/ FirestoreSetRead(c)
    \/ FirestoreSetWrite(c)
    \/ FirestoreRemoveRead(c)
    \/ FirestoreRemoveDelete(c)
(***************************************************************************)
(* PreferencesDB (database.py): the substitutions table                    *)
(***************************************************************************)

\* A row of substitutions; original_ingredient is UNIQUE.
SubstitutionRow(id, original_ingredient, substitute_ingredient, active) ==
  [id |-> id, original_ingredient |-> original_ingredient,
   substitute_ingredient |-> substitute_ingredient, active |-> active]

\* PreferencesDB.add_substitution: INSERT ... ON CONFLICT(original_ingredient)
\* DO UPDATE SET substitute_ingredient, reason, updated_at.  A new row gets
\* the default active = 1; the update does not set active.
add_substitution(rows, original, substitute) ==
  IF \E r \in rows : r.original_ingredient = Lower(original)
  THEN { IF r.original_ingredient = Lower(original)
         THEN [r EXCEPT !.substitute_ingredient = Lower(substitute)]
         ELSE r : r \in rows }
  ELSE rows \cup { SubstitutionRow(FreshId(rows), Lower(original), Lower(substitute), TRUE) }

\* PreferencesDB.get_substitution: the substitute of the active row of the
\* ingredient, None when there is none.
get_substitution(rows, ingredient) ==
  IF \E r \in rows : r.original_ingredient = Lower(ingredient) /\ r.active
  THEN (CHOOSE r \in rows : r.original_ingredient = Lower(ingredient) /\ r.active)
         .substitute_ingredient
  ELSE PyNone

\* PreferencesDB.get_all_substitutions, as the set of its (original,
\* substitute) pairs.
get_all_substitutions(rows) ==
  { <<r.original_ingredient, r.substitute_ingredient>> : r \in { q \in rows : q.active } }

\* PreferencesDB.delete_substitution: UPDATE substitutions SET active = 0
delete_substitution(rows, original) ==
  { IF r.original_ingredient = Lower(original) THEN [r EXCEPT !.active = FALSE] ELSE r :
    r \in rows }

\* ---- inputs ----
MaxSubstitutionCalls == 4

SubstitutionOriginals == { <<"m","i","l","k">>, <<"M","i","l","k">>, <<"b","u","t","t","e","r">> }

SubstitutionSubstitutes == { <<"o","a","t"," ","m","i","l","k">>, <<"S","o","y">> }

\* The last call: its name and arguments.
SubstitutionCall(op, original, substitute) ==
  [op |-> op, original |-> original, substitute |-> substitute]

SbInit ==
  /\ sb_rows = {}
  /\ sb_calls = 0
  /\ sb_last = SubstitutionCall("none", <<>>, <<>>)

SbIdle ==
  /\ sb_rows = {}
  /\ sb_calls = -1
  /\ sb_last = SubstitutionCall("none", <<>>, <<>>)

AddSubstitution ==
  /\ sb_calls >= 0 /\ sb_calls < MaxSubstitutionCalls
  /\ \E original \in SubstitutionOriginals, substitute \in SubstitutionSubstitutes :
       /\ sb_rows' = add_substitution(sb_rows, original, substitute)
       /\ sb_last' = SubstitutionCall("add", original, substitute)
  /\ sb_calls' = sb_calls + 1
  /\ UNCHANGED other_than_sb

DeleteSubstitution ==
  /\ sb_calls >= 0 /\ sb_calls < MaxSubstitutionCalls
  /\ \E original \in SubstitutionOriginals :
       /\ sb_rows' = delete_substitution(sb_rows, original)
       /\ sb_last' = SubstitutionCall("delete", original, <<>>)
  /\ sb_calls' = sb_calls + 1
  /\ UNCHANGED other_than_sb

SbNext ==
  \/ AddSubstitution
  \/ DeleteSubstitution
(***************************************************************************)
(* PreferencesDB (database.py): the shopping_defaults table                *)
(***************************************************************************)

\* Python values: a bool, an int, a str, None, a float (kept as its text),
\* and the ValueError that int() or float() raises.
BoolValue(b) == [t |-> "bool", b |-> b, n |-> 0, s |-> <<>>]

IntValue(n) == [t |-> "int", b |-> FALSE, n |-> n, s |-> <<>>]

StrValue(s) == [t |-> "str", b |-> FALSE, n |-> 0, s |-> s]

NoneValue == [t |-> "NoneType", b |-> FALSE, n |-> 0, s |-> <<>>]

FloatValue(text) == [t |-> "float", b |-> FALSE, n |-> 0, s |-> text]

ValueError == [t |-> "ValueError", b |-> FALSE, n |-> 0, s |-> <<>>]

\* str(n) of a natural number
RECURSIVE NatText(_)
NatText(n) ==
  LET digit == <<"0", "1", "2", "3", "4", "5", "6", "7", "8", "9">>[(n % 10) + 1]
  IN  IF n < 10 THEN <<digit>> ELSE Append(NatText(n \div 10), digit)

\* str(n) of an int
IntText(n) == IF n < 0 THEN <<"-">> \o NatText(0 - n) ELSE NatText(n)

\* str(value)
PyStr(value) ==
  CASE value.t = "bool" -> IF value.b THEN <<"T","r","u","e">> ELSE <<"F","a","l","s","e">>
    [] value.t = "int" -> IntText(value.n)
    [] value.t = "NoneType" -> <<"N","o","n","e">>
    [] OTHER -> value.s

\* The text without a leading sign
Unsigned(text) ==
  IF text # <<>> /\ Head(text) \in {"+", "-"} THEN Tail(text) ELSE text

\* int(value) of a text of digits, signs, letters and spaces: surrounding
\* spaces and one sign are allowed, the rest must be digits.
IntOfText(value) ==
  LET text == Strip(value)
      digits == Unsigned(text)
  IN  IF digits # <<>> /\ \A i \in 1..Len(digits) : IsDigit(digits[i])
      THEN IntValue(IF Head(text) = "-" THEN 0 - DigitsValue(digits)
                    ELSE DigitsValue(digits))
      ELSE ValueError

\* float(value)
FloatOfText(value) == IF PyFloat(value).ok THEN FloatValue(Strip(value)) ELSE ValueError

\* A row of shopping_defaults; setting_key is UNIQUE.
DefaultRow(setting_key, setting_value, setting_type) ==
  [setting_key |-> setting_key, setting_value |-> setting_value,
   setting_type |-> setting_type]

\* PreferencesDB._insert_default_settings
_insert_default_settings ==
  { DefaultRow("prefer_australian_grown", <<"t","r","u","e">>, "boolean"),
    DefaultRow("prefer_specials", <<"t","r","u","e">>, "boolean"),
    DefaultRow("max_price_per_item", <<"n","u","l","l">>, "number"),
    DefaultRow("prefer_smaller_packages", <<"f","a","l","s","e">>, "boolean"),
    DefaultRow("avoid_palm_oil", <<"t","r","u","e">>, "boolean"),
    DefaultRow("always_organic_produce", <<"t","r","u","e">>, "boolean"),
    DefaultRow("highlight_expensive_items", <<"1","5">>, "number") }

\* PreferencesDB.set_default: the value as a string and its type, then
\* INSERT ... ON CONFLICT(setting_key) DO UPDATE SET setting_value,
\* updated_at.  The update does not set setting_type.
set_default(rows, key, value) ==
  LET str_value == IF value.t = "bool" THEN (IF value.b THEN <<"t","r","u","e">> ELSE <<"f","a","l","s","e">>)
                   ELSE PyStr(value)
      setting_type == CASE value.t = "bool" -> "boolean"
                        [] value.t \in {"int", "float"} -> "number"
                        [] OTHER -> "string"
  IN  IF \E r \in rows : r.setting_key = key
      THEN { IF r.setting_key = key THEN [r EXCEPT !.setting_value = str_value] ELSE r :
             r \in rows }
      ELSE rows \cup { DefaultRow(key, str_value, setting_type) }

\* The conversion of a row back to a value, of get_default and of
\* get_all_defaults.
StoredValue(row) ==
  CASE row.setting_type = "boolean" -> BoolValue(Lower(row.setting_value) = <<"t","r","u","e">>)
    [] row.setting_type = "number" ->
         IF \E i \in 1..Len(row.setting_value) : row.setting_value[i] = "."
         THEN FloatOfText(row.setting_value) ELSE IntOfText(row.setting_value)
    [] OTHER -> IF row.setting_value = <<"n","u","l","l">> THEN NoneValue
                ELSE StrValue(row.setting_value)

\* PreferencesDB.get_default(key): None without a row; a ValueError of the
\* conversion leaves the method.
get_default(rows, key) ==
  IF \E r \in rows : r.setting_key = key
  THEN StoredValue(CHOOSE r \in rows : r.setting_key = key)
  ELSE NoneValue

\* PreferencesDB.get_all_defaults: raises when the conversion of a row
\* raises, else the dict of the converted rows.
get_all_defaults(rows) ==
  [raised |-> \E r \in rows : StoredValue(r) = ValueError,
   defaults |-> { <<r.setting_key, StoredValue(r)>> : r \in rows }]

\* ---- inputs ----
MaxDefaultCalls == 2

DefaultKeys ==
  { "store_brand_ok", "max_price_per_item", "prefer_specials", "highlight_expensive_items" }

DefaultValues ==
  { BoolValue(TRUE), BoolValue(FALSE), IntValue(0), IntValue(20), IntValue(0 - 3),
    StrValue(<<>>), StrValue(<<"n","o">>), StrValue(<<"t","r","u","e">>), StrValue(<<"n","u","l","l">>), StrValue(<<"7">>),
    NoneValue }

\* The last call of set_default.
DefaultCall(op, key, value) == [op |-> op, key |-> key, value |-> value]

DfInit ==
  /\ df_rows = _insert_default_settings
  /\ df_calls = 0
  /\ df_last = DefaultCall("none", "", NoneValue)

DfIdle ==
  /\ df_rows = {}
  /\ df_calls = -1
  /\ df_last = DefaultCall("none", "", NoneValue)

SetDefault ==
  /\ df_calls >= 0 /\ df_calls < MaxDefaultCalls
  /\ \E key \in DefaultKeys, value \in DefaultValues :
       /\ df_rows' = set_default(df_rows, key, value)
       /\ df_last' = DefaultCall("set", key, value)
  /\ df_calls' = df_calls + 1
  /\ UNCHANGED other_than_df

DfNext == SetDefault
(***************************************************************************)
(* The /shopping-list route (shopping_list of flask_app.py) when it        *)
(* generates a list: the recipe lines are aggregated, the staples that are *)
(* not in stock are appended, and the list is organized by the native      *)
(* optimizer or, without one, by apply_preferences and categorize_items    *)
(***************************************************************************)

\* An item of shopping_list_items.  name is what item.get('name',
\* item.get('ingredient_name', '')) reads, named is whether the dict has the
\* key 'name', and category_staple is "" when the dict has no such key.
ShoppingItem(name, named, quantity, unit, is_optional, category_staple) ==
  [name |-> name, named |-> named, quantity |-> quantity, unit |-> unit,
   is_optional |-> is_optional, category_staple |-> category_staple,
   notes |-> <<>>, search_term |-> Absent, original_name |-> Absent]

\* The dicts generate_shopping_list returns have the key 'ingredient_name'.
RecipeItems(entries) ==
  [i \in 1..Len(entries) |->
     ShoppingItem(entries[i].name, FALSE, entries[i].quantity, entries[i].unit,
                  entries[i].is_optional, "")]

\* "Add unchecked staples to shopping list"
StapleItems(staples) ==
  LET NotInStock(staple) == ~staple.in_stock
      out == SelectSeq(staples, NotInStock)
  IN  [s \in 1..Len(out) |->
         ShoppingItem(out[s].name, TRUE, out[s].quantity, out[s].unit, FALSE,
                      out[s].category)]

\* The keyword lists of categorize_items, in the order of the elif chain.
\* The display names are written without their leading pictograph.
route_keywords ==
  << [category |-> "Proteins",
      keywords |-> << <<"c","h","i","c","k","e","n">>, <<"b","e","e","f">>, <<"p","o","r","k">>, <<"f","i","s","h">>, <<"t","o","f","u">>, <<"e","g","g">> >>],
     [category |-> "Fresh Produce",
      keywords |-> << <<"a","p","p","l","e">>, <<"b","a","n","a","n","a">>, <<"b","e","r","r","y">>, <<"t","o","m","a","t","o">>, <<"l","e","t","t","u","c","e">>, <<"s","p","i","n","a","c","h">>,
                      <<"o","n","i","o","n">>, <<"g","a","r","l","i","c">>, <<"s","t","r","a","w","b","e","r","r">>, <<"b","l","u","e","b","e","r","r">>, <<"c","a","r","r","o","t">>,
                      <<"p","u","m","p","k","i","n">> >>],
     [category |-> "Dairy",
      keywords |-> << <<"m","i","l","k">>, <<"c","h","e","e","s","e">>, <<"y","o","g","u","r","t">>, <<"b","u","t","t","e","r">> >>],
     [category |-> "Bakery", keywords |-> << <<"b","r","e","a","d">>, <<"l","o","a","f">> >>],
     [category |-> "Pantry Staples",
      keywords |-> << <<"f","l","o","u","r">>, <<"s","u","g","a","r">>, <<"s","a","l","t">>, <<"p","e","p","p","e","r">>, <<"o","i","l">>, <<"v","i","n","e","g","a","r">>,
                      <<"r","i","c","e">> >>] >>

\* category_map.get(cat_name, 'Other') of categorize_items
StapleDisplayCategory(cat_name) ==
  CASE cat_name = "Dairy" -> "Dairy"
    [] cat_name = "Proteins" -> "Proteins"
    [] cat_name = "Fresh Produce" -> "Fresh Produce"
    [] cat_name = "Bakery" -> "Bakery"
    [] cat_name = "Pantry" -> "Pantry Staples"
    [] OTHER -> "Other"

\* The category categorize_items gives one item: the configured category
\* of a staple, else the first keyword list with a keyword in
\* item.get('name', '').lower().  apply_preferences gives an item it
\* substitutes the key 'name'.
RouteCategory(item) ==
  IF item.category_staple # ""
  THEN StapleDisplayCategory(item.category_staple)
  ELSE ScanCategories(route_keywords, 1,
                      IF item.named \/ item.original_name # Absent
                      THEN Lower(item.name) ELSE <<>>)

\* categorize_items: the categories in the order in which their first item
\* comes, each with its items in list order.
categorize_items(items) ==
  LET cats == FirstSeen([i \in 1..Len(items) |-> RouteCategory(items[i])])
  IN  [c \in 1..Len(cats) |->
         LET Here(item) == RouteCategory(item) = cats[c]
         IN  [category |-> cats[c], items |-> SelectSeq(items, Here)]]

\* What the classifier does in a request: there is no optimizer
\* ("unavailable": get_shopping_optimizer() returns None), the call raises,
\* the text is not JSON, or the text is a JSON list of the named items.
Classifier(kind, names) == [kind |-> kind, names |-> names]

\* The response the optimizer gets from the classifier.
ClassifierResponse(classifier) ==
  IF classifier.kind = "json"
  THEN [kind |-> "json",
        result |-> AiResult("one", [i \in 1..Len(classifier.names) |->
                                      AiItem(classifier.names[i])],
                            Len(classifier.names), TRUE)]
  ELSE [kind |-> classifier.kind, result |-> NoResult]

\* The route from the recipe lines to the categories it renders and stores
\* in the session.
shopping_list(lines, servings_multiplier, staples, prefs, classifier) ==
  LET shopping_list_items ==
        RecipeItems(generate_shopping_list(lines, servings_multiplier))
          \o StapleItems(staples)
  IN  IF classifier.kind # "unavailable"
      THEN [ai_optimized |-> TRUE,
            categories |-> NativeOptimize(ClassifierResponse(classifier),
                                          shopping_list_items, staples).categories]
      ELSE [ai_optimized |-> FALSE,
            categories |-> categorize_items(
                             apply_preferences(shopping_list_items,
                                               prefs.substitutions, prefs.organic))]

\* ---- inputs ----
MaxRecipeLines == 2

\* The ingredient lines of the selected recipes.
RecipeLines ==
  { Line(<<"r","i","c","e">>, <<"1">>, <<"c","u","p">>, FALSE), Line(<<"r","i","c","e">>, <<"2">>, <<"c","u","p">>, FALSE),
    Line(<<"b","u","t","t","e","r">>, <<"2","5","0">>, <<"g">>, FALSE) }

\* The names of what the classifier was asked to organize: every recipe
\* ingredient, then every staple that is not in stock.
AskedNames(lines, staples) ==
  LET items == RecipeItems(generate_shopping_list(lines, 1)) \o StapleItems(staples)
  IN  [i \in 1..Len(items) |-> items[i].name]

\* The names of the recipe ingredients alone.
RecipeNames(lines) ==
  LET items == RecipeItems(generate_shopping_list(lines, 1))
  IN  [i \in 1..Len(items) |-> items[i].name]

\* The classifier of a request: none, one that fails, one that lists all it
\* was asked for, one that leaves the staples out.
Classifiers(lines, staples) ==
  { Classifier("unavailable", <<>>), Classifier("raise", <<>>),
    Classifier("text", <<>>),
    Classifier("json", AskedNames(lines, staples)),
    Classifier("json", RecipeNames(lines)) }

NoClassifier == Classifier("none", <<>>)

RtInit ==
  /\ rt_pc = "start"
  /\ \E n \in 0..MaxRecipeLines : rt_lines \in [1..n -> RecipeLines]
  /\ rt_staples \in StapleLists
  /\ rt_prefs \in PreferenceCases
  /\ rt_classifier = NoClassifier
  /\ rt_served = [ai_optimized |-> FALSE, categories |-> <<>>]

RtIdle ==
  /\ rt_pc = "idle"
  /\ rt_lines = <<>>
  /\ rt_staples = <<>>
  /\ rt_prefs = [substitutions |-> <<>>, organic |-> <<>>]
  /\ rt_classifier = NoClassifier
  /\ rt_served = [ai_optimized |-> FALSE, categories |-> <<>>]

\* GET /shopping-list for a session with a meal plan, when the list is
\* generated (force_refresh, or no list in the session yet).
ShoppingList ==
  /\ rt_pc = "start"
  /\ \E servings_multiplier \in {1, 2} :
       \E classifier \in Classifiers(rt_lines, rt_staples) :
         /\ rt_classifier' = classifier
         /\ rt_served' = shopping_list(rt_lines, servings_multiplier, rt_staples,
                                       rt_prefs, classifier)
  /\ rt_pc' = "served"
  /\ UNCHANGED <<rt_lines, rt_staples, rt_prefs>>
  /\ UNCHANGED other_than_rt

RtNext == ShoppingList
(***************************************************************************)
(* PreferencesDB (database.py): the organic_preferences table              *)
(***************************************************************************)

\* A row of organic_preferences; ingredient is UNIQUE.  The columns id and
\* created_at are read by no query of the class and are left out.
OrganicRow(ingredient, prefer_organic) ==
  [ingredient |-> ingredient, prefer_organic |-> prefer_organic]

\* The list default_organic of _insert_default_organic_preferences.
default_organic ==
  { <<"p","u","m","p","k","i","n">>, <<"b","u","t","t","e","r","n","u","t">>, <<"s","t","r","a","w","b","e","r","r","i","e","s">>, <<"b","l","u","e","b","e","r","r","i","e","s">>,
    <<"s","p","i","n","a","c","h">>, <<"k","a","l","e">>, <<"a","p","p","l","e","s">>, <<"t","o","m","a","t","o","e","s">> }

\* PreferencesDB._insert_default_organic_preferences: INSERT OR IGNORE of
\* (ingredient.lower(), 1) for every default; a row of the ingredient that is
\* already there is kept as it is.
_insert_default_organic_preferences(rows) ==
  rows \cup { OrganicRow(Lower(ingredient), TRUE) :
              ingredient \in { d \in default_organic :
                                 ~(\E r \in rows : r.ingredient = Lower(d)) } }

\* PreferencesDB.init_db, on organic_preferences: CREATE TABLE IF NOT EXISTS
\* keeps the rows of an existing table, then the defaults are inserted.
init_db(rows) == _insert_default_organic_preferences(rows)

\* PreferencesDB.add_organic_preference: INSERT OR REPLACE of
\* (ingredient.lower(), 1).
add_organic_preference(rows, ingredient) ==
  { r \in rows : r.ingredient # Lower(ingredient) }
    \cup { OrganicRow(Lower(ingredient), TRUE) }

\* PreferencesDB.remove_organic_preference: DELETE ... WHERE ingredient = ?
remove_organic_preference(rows, ingredient) ==
  { r \in rows : r.ingredient # Lower(ingredient) }

\* PreferencesDB.should_prefer_organic: bool(prefer_organic) of the row of
\* the ingredient, False when there is no row.
should_prefer_organic(rows, ingredient) ==
  IF \E r \in rows : r.ingredient = Lower(ingredient)
  THEN (CHOOSE r \in rows : r.ingredient = Lower(ingredient)).prefer_organic
  ELSE FALSE

\* PreferencesDB.get_all_organic_preferences, as the set of its ingredients.
get_all_organic_preferences(rows) ==
  { r.ingredient : r \in { q \in rows : q.prefer_organic } }

\* ---- inputs ----
MaxOrganicCalls == 4

\* A seeded default in two spellings, a second default, and an ingredient
\* that is no default.
OrganicIngredients == { <<"k","a","l","e">>, <<"K","a","l","e">>, <<"s","p","i","n","a","c","h">>, <<"r","i","c","e">> }

\* The last call: its name and argument.
OrganicCall(op, ingredient) == [op |-> op, ingredient |-> ingredient]

\* PreferencesDB(db_path) on a new database file: __init__ runs init_db.
\* og_removed holds the lower-cased ingredients that were removed and not
\* added since.
OgInit ==
  /\ og_rows = init_db({})
  /\ og_removed = {}
  /\ og_calls = 0
  /\ og_last = OrganicCall("none", <<>>)

OgIdle ==
  /\ og_rows = {}
  /\ og_removed = {}
  /\ og_calls = -1
  /\ og_last = OrganicCall("none", <<>>)

AddOrganicPreference ==
  /\ og_calls >= 0 /\ og_calls < MaxOrganicCalls
  /\ \E ingredient \in OrganicIngredients :
       /\ og_rows' = add_organic_preference(og_rows, ingredient)
       /\ og_removed' = og_removed \ { Lower(ingredient) }
       /\ og_last' = OrganicCall("add", ingredient)
  /\ og_calls' = og_calls + 1
  /\ UNCHANGED other_than_og

RemoveOrganicPreference ==
  /\ og_calls >= 0 /\ og_calls < MaxOrganicCalls
  /\ \E ingredient \in OrganicIngredients :
       /\ og_rows' = remove_organic_preference(og_rows, ingredient)
       /\ og_removed' = og_removed \cup { Lower(ingredient) }
       /\ og_last' = OrganicCall("remove", ingredient)
  /\ og_calls' = og_calls + 1
  /\ UNCHANGED other_than_og

\* A new PreferencesDB on the same database file (a restart of the
\* application), or init_db called again.
InitDb ==
  /\ og_calls >= 0 /\ og_calls < MaxOrganicCalls
  /\ og_rows' = init_db(og_rows)
  /\ og_last' = OrganicCall("init", <<>>)
  /\ og_calls' = og_calls + 1
  /\ UNCHANGED og_removed
  /\ UNCHANGED other_than_og

OgNext ==
  \/ AddOrganicPreference
  \/ RemoveOrganicPreference
  \/ InitDb
(***************************************************************************)
(* Claims about _get_category                                              *)
(***************************************************************************)

\* The keywords the table holds for a category, whatever its position.
KeywordsOf(cat) ==
  UNION { IF category_map[i].category = cat
          THEN { category_map[i].keywords[k] : k \in 1..Len(category_map[i].keywords) }
          ELSE {}
          : i \in 1..Len(category_map) }

HasKeyword(cat, name) == \E kw \in KeywordsOf(cat) : Contains(kw, Lower(name))

\* The result is the first category of `order` with a keyword in the name,
\* and Other exactly when no category has one.
FirstMatchIn(order, name, result) ==
  IF \E i \in 1..Len(order) : HasKeyword(order[i], name)
  THEN \E i \in 1..Len(order) :
         /\ HasKeyword(order[i], name)
         /\ \A j \in 1..(i - 1) : ~HasKeyword(order[j], name)
         /\ result = order[i]
  ELSE result = "Other"

C10_ClaimedOrder ==
  << "Fresh Produce", "Dairy & Eggs", "Meat & Seafood", "Bakery",
     "Pantry Staples", "Frozen", "Beverages", "Snacks" >>

C10_ScanOrder ==
  << "Fresh Produce", "Dairy & Eggs", "Meat & Seafood", "Pantry Staples",
     "Bakery", "Frozen", "Beverages", "Snacks" >>

\* C10 as stated: _get_category(name) returns the first category, in the order
\* Fresh Produce, Dairy & Eggs, Meat & Seafood, Bakery, Pantry Staples, Frozen,
\* Beverages, Snacks, that has a keyword occurring in the lower-cased name, and
\* Other exactly when no keyword occurs.
C10_FirstInCanonicalOrder ==
  cat_pc = "done" => FirstMatchIn(C10_ClaimedOrder, cat_in, cat_out)

\* C10 amended: _get_category(name) returns the first category, in the order
\* Fresh Produce, Dairy & Eggs, Meat & Seafood, Pantry Staples, Bakery, Frozen,
\* Beverages, Snacks (Pantry Staples is scanned before Bakery), that has a
\* keyword occurring in the lower-cased name, and Other exactly when no keyword
\* of any category occurs in the name.
C10_FirstInScanOrder ==
  cat_pc = "done" => FirstMatchIn(C10_ScanOrder, cat_in, cat_out)

\* A name with a Bakery keyword and a Pantry Staples keyword has been
\* categorized, and one with no keyword at all would go to Other.
C10_Witness ==
  /\ cat_pc = "done"
  /\ HasKeyword("Bakery", cat_in)
  /\ HasKeyword("Pantry Staples", cat_in)
  /\ ~HasKeyword("Fresh Produce", cat_in)
  /\ cat_out = "Pantry Staples"

(***************************************************************************)
(* Claims about the preference steps                                       *)
(***************************************************************************)

\* The rule's lower-cased, trimmed original occurs in the item's lower-cased,
\* trimmed name.
RuleMatches(rule, item_name) ==
  Contains(Strip(Lower(rule.original)), Strip(Lower(item_name)))

HasNote(item, kind) == \E k \in 1..Len(item.notes) : item.notes[k][1] = kind

\* C8: at every call site that applies substitutions (_apply_substitutions of
\* the generator, apply_preferences of the web layer) an item's name is
\* replaced by a rule's substitute exactly when its lower-cased, trimmed name
\* contains the lower-cased, trimmed original of an active rule, and the
\* replacement is recorded in the item's notes.
C8_SubstringAtEverySite ==
  pf_pc \in {"substituted", "prefs"} =>
    \A i \in 1..Len(pf_items) :
      LET matching == { k \in 1..Len(pf_subs) : RuleMatches(pf_subs[k], pf_items[i].name) }
      IN  IF matching # {}
          THEN /\ \E k \in matching : pf_stage1[i].name = pf_subs[k].substitute
               /\ HasNote(pf_stage1[i], "Substituted from")
          ELSE /\ pf_stage1[i].name = pf_items[i].name
               /\ ~HasNote(pf_stage1[i], "Substituted from")

\* C9: applying the organic-preference step twice gives the same items
\* (names, search terms and notes) as applying it once, in the generator
\* (_apply_organic_preferences) and in the web layer (apply_preferences with
\* no substitution rule, so that only its organic step acts).
C9_OrganicIdempotent ==
  /\ pf_pc = "organic_again" => pf_stage3 = pf_stage2
  /\ (pf_pc = "prefs_again" /\ pf_subs = <<>>) => pf_stage2 = pf_stage1


\* An organic preference term occurs in the lower-cased name.
OrganicTermIn(name) ==
  \E k \in 1..Len(pf_org) : Contains(Lower(pf_org[k]), Lower(name))

\* The generator marked the item organic (prefix and note), the web layer
\* marked it (search term and note).
MarkedOrganic(item) ==
  HasNote(item, "organic mark") \/ HasNote(item, "Organic preferred")

\* The generator decides on the name that the substitution step returned;
\* a name that already says organic is left as it is.
C22_GeneratorDecidesAfterSubstitution ==
  pf_pc = "organic" =>
    \A i \in 1..Len(pf_items) :
      ~Contains(<<"o","r","g","a","n","i","c">>, Lower(pf_stage1[i].name)) =>
        (MarkedOrganic(pf_stage2[i]) <=> OrganicTermIn(pf_stage1[i].name))

\* The web layer decides on the name the item came in with.
C22_WebLayerDecidesOnIncomingName ==
  pf_pc = "prefs" =>
    \A i \in 1..Len(pf_items) :
      MarkedOrganic(pf_stage1[i]) <=> OrganicTermIn(pf_items[i].name)

\* C22: organic preferences are applied after substitutions: at both call
\* sites an item is marked organic exactly when its name after all
\* substitutions contains an organic preference term, so an item substituted
\* away from such a term is not marked and an item substituted into one is.
C22_OrganicDecidedAfterSubstitution ==
  /\ C22_GeneratorDecidesAfterSubstitution
  /\ pf_pc = "prefs" =>
       \A i \in 1..Len(pf_items) :
         MarkedOrganic(pf_stage1[i]) <=> OrganicTermIn(pf_stage1[i].name)
(***************************************************************************)
(* Claims about the quantity parser                                        *)
(***************************************************************************)

\* The parser the specification describes: the quantity starts with an
\* integer, a decimal or a fraction token, whose value is the result, as the
\* fraction num/den; a missing or empty quantity is a failure.
SpecifiedParse(quantity) ==
  IF quantity \in {Absent, PyNone, <<>>} \/ ~IsDigit(quantity[1])
  THEN [ok |-> FALSE, num |-> 0, den |-> 1]
  ELSE LET e1 == DigitRunEnd(quantity, 1)
           sep == IF e1 < Len(quantity) THEN quantity[e1 + 1] ELSE "none"
           e2 == DigitRunEnd(quantity, e1 + 2)
           intpart == SubSeq(quantity, 1, e1)
           rest == SubSeq(quantity, e1 + 2, e2)
       IN  IF sep = "/" /\ DigitsValue(rest) > 0
           THEN [ok |-> TRUE, num |-> DigitsValue(intpart), den |-> DigitsValue(rest)]
           ELSE IF sep = "."
           THEN [ok |-> TRUE, num |-> DecimalValue(intpart, rest), den |-> 1000]
           ELSE [ok |-> TRUE, num |-> DigitsValue(intpart), den |-> 1]

\* The parsed number (in thousandths) is the value num/den.
SameValue(parsed, specified) ==
  /\ parsed.ok = specified.ok
  /\ parsed.ok => parsed.val * specified.den = specified.num * 1000

\* C7: the quantity parser used when merging a group (in _combine_duplicates
\* and in generate_shopping_list) succeeds exactly on quantities that start
\* with an integer, decimal or fraction token and yields that token's value
\* ("1/2" yields 0.5); an empty or missing quantity is a parse failure and is
\* never counted as 0 or as 1.
C7_LeadingTokenParse ==
  qp_pc \in {"combine", "shopping_list"} => SameValue(qp_out, SpecifiedParse(qp_in))

(***************************************************************************)
(* Claims about the aggregation of ingredient lines                        *)
(***************************************************************************)

\* The aggregation key of the specification: normalized name and normalized
\* unit.
AggKey(line) ==
  << GroupName(line.name),
     IF line.unit \in {Absent, PyNone} THEN <<>> ELSE GroupName(line.unit) >>

\* The input lines that share the aggregation key of line i.
KeyGroup(lines, i) == { j \in 1..Len(lines) : AggKey(lines[j]) = AggKey(lines[i]) }

\* The input lines that share the normalized name of line i.
NameGroup(lines, i) ==
  { j \in 1..Len(lines) : GroupName(lines[j].name) = GroupName(lines[i].name) }

\* The value, in thousandths, of a quantity the specified parser accepts
\* (the fractions of the model have the denominator 2).
SpecifiedValue(quantity) ==
  LET p == SpecifiedParse(quantity) IN (p.num * 1000) \div p.den

RECURSIVE SumOfSet(_, _)
SumOfSet(f, S) ==
  IF S = {} THEN 0 ELSE LET x == Min(S) IN f[x] + SumOfSet(f, S \ {x})

\* A number in thousandths written without trailing zeros or trailing point.
ExactFormat(v) ==
  LET f == v % 1000
      f3 == <<DigitChar(f \div 100), DigitChar((f \div 10) % 10), DigitChar(f % 10)>>
  IN  RStripChar(NatToStr(v \div 1000) \o <<".">> \o RStripChar(f3, "0"), ".")

\* C4: for every group of two or more lines with the same aggregation key
\* whose quantities all parse as numbers, _combine_duplicates emits exactly one
\* entry for that key, whose quantity is the sum of the parsed values
\* (formatted without trailing zeros or trailing decimal point) and whose note
\* is "Combined from N recipes", N the size of the group; groups whose
\* quantities sum to zero included.
C4_OneSummedEntryPerGroup ==
  cmb_pc = "combined" =>
    \A i \in 1..Len(cmb_lines) :
      LET G == KeyGroup(cmb_lines, i)
          entries == { k \in 1..Len(cmb_out) : AggKey(cmb_out[k]) = AggKey(cmb_lines[i]) }
          total == SumOfSet([j \in 1..Len(cmb_lines) |-> SpecifiedValue(cmb_lines[j].quantity)], G)
      IN  (Cardinality(G) >= 2 /\ \A j \in G : SpecifiedParse(cmb_lines[j].quantity).ok) =>
            /\ Cardinality(entries) = 1
            /\ \A k \in entries :
                 /\ cmb_out[k].quantity = ExactFormat(total)
                 /\ cmb_out[k].notes = <<"Combined from", Cardinality(G)>>

\* Lines i and j were summed into one entry of the result.
Merged(i, j) == \E k \in 1..Len(cmb_out) : {i, j} \subseteq cmb_out[k].src

\* The quantity is a plain positive number, which every parser of the
\* program and of the specification reads alike.
PlainPositive(quantity) ==
  /\ quantity \notin {Absent, PyNone}
  /\ PyFloat(quantity).ok
  /\ PyFloat(quantity).val > 0
  /\ quantity = Strip(quantity)

\* C5: two ingredient lines are merged into one summed entry if and only if
\* their normalized names and their normalized units are equal (stated for
\* lists whose quantities are all plain positive numbers, so that nothing but
\* the key decides); lines with the same name and different units are never
\* summed together.
C5_MergedIffSameKey ==
  (/\ cmb_pc \in {"combined", "shopping_list"}
   /\ \A i \in 1..Len(cmb_lines) : PlainPositive(cmb_lines[i].quantity)) =>
    \A i, j \in 1..Len(cmb_lines) :
      i < j => (Merged(i, j) <=> AggKey(cmb_lines[i]) = AggKey(cmb_lines[j]))

\* The entry's quantity is the line's own quantity (as text, or as the same
\* number after the servings multiplier).
OwnQuantity(entry, line, mult) ==
  \/ entry.quantity = line.quantity
  \/ /\ line.quantity \notin {Absent, PyNone} /\ entry.quantity \notin {Absent, PyNone}
     /\ PyFloat(line.quantity).ok /\ PyFloat(entry.quantity).ok
     /\ PyFloat(entry.quantity).val = PyFloat(line.quantity).val * mult

\* C6: whenever at least one line of a group sharing an aggregation key has a
\* quantity that does not parse, every line of the group is kept as its own
\* entry with its own quantity and nothing is summed; in _combine_duplicates
\* the entries of a group of several lines are annotated "From recipe i", i
\* counted from 1 within the lines of that name.
C6_UnparsedGroupKeptLineByLine ==
  cmb_pc \in {"combined", "shopping_list"} =>
    \A i \in 1..Len(cmb_lines) :
      LET G == KeyGroup(cmb_lines, i)
          N == NameGroup(cmb_lines, i)
          rank == Cardinality({ j \in N : j <= i })
      IN  (\E j \in G : ~SpecifiedParse(cmb_lines[j].quantity).ok) =>
            \E k \in 1..Len(cmb_out) :
              /\ cmb_out[k].src = {i}
              /\ OwnQuantity(cmb_out[k], cmb_lines[i], cmb_mult)
              /\ (cmb_pc = "combined" /\ Cardinality(N) >= 2) =>
                   cmb_out[k].notes = <<"From recipe", rank>>

\* C6 restricted to _combine_duplicates, where it holds.
C6_CombineDuplicatesKeepsLines ==
  cmb_pc = "combined" => C6_UnparsedGroupKeptLineByLine


\* The entries of the result that stand for two or more input lines.
MergedEntries == { k \in 1..Len(cmb_out) : Cardinality(cmb_out[k].src) >= 2 }

\* C27: an entry produced by merging several ingredient lines is optional
\* only if every merged line was optional: an optional line merged with a
\* required line, in either order, gives a required entry.  The entry that
\* _combine_duplicates builds has no is_optional key, which reads as
\* required.
C27_OptionalOnlyIfAllOptional ==
  /\ cmb_pc = "combined" =>
       \A k \in MergedEntries : cmb_out[k].is_optional \in {Absent}
  /\ cmb_pc = "shopping_list" =>
       \A k \in MergedEntries :
         cmb_out[k].is_optional => \A j \in cmb_out[k].src : cmb_lines[j].is_optional

\* The entry of generate_shopping_list has the is_optional of the first of
\* its lines, whatever the later lines have.
C27_FirstLineDecides ==
  cmb_pc = "shopping_list" =>
    \A k \in 1..Len(cmb_out) :
      cmb_out[k].is_optional = cmb_lines[Min(cmb_out[k].src)].is_optional
(***************************************************************************)
(* Claims about the AI-assisted optimizers                                 *)
(***************************************************************************)

\* A name as the claims compare it: lower-cased and trimmed.
Normalized(name) == Strip(Lower(name))

\* The normalized names of the raw ingredients and of the staples that are
\* not in stock.
InputNames(raw_ingredients, staples) ==
  { Normalized(raw_ingredients[i].name) : i \in 1..Len(raw_ingredients) }
    \cup { Normalized(staples[s].name) :
             s \in { t \in 1..Len(staples) : ~staples[t].in_stock } }

\* The normalized names of the items of all returned categories.
OutputNames(result) ==
  LET all == AllItems(result.categories)
  IN  { Normalized(all[i].item) :
          i \in { j \in 1..Len(all) : all[j].item \notin {Absent, PyNone} } }

Optimized == opt_pc \in {"native", "langchain"}

\* C1: for every classifier output that parses as JSON, after the repair
\* pass the set of normalized item names in the returned categories is a
\* superset of the normalized names of all raw ingredients and of all
\* staples that are not in stock.
C1_RepairedNamesSuperset ==
  (Optimized /\ opt_response.kind = "json")
    => InputNames(opt_raw, opt_staples) \subseteq OutputNames(opt_result)

\* What the repair pass does guarantee: every input name is a substring of,
\* or contains, the normalized name of some returned item (the empty name of
\* an item without a name included).
C1_EveryInputFuzzilyCovered ==
  (Optimized /\ opt_response.kind = "json")
    => \A name \in InputNames(opt_raw, opt_staples) :
         Found(name, AiNames(opt_result.categories))

\* C2: for every outcome of the classifier call, optimize_shopping_list
\* returns a result that lists every raw ingredient and every staple that is
\* not in stock, and the result is non-empty whenever the input is.
C2_EveryOutcomeListsEverything ==
  Optimized
    => /\ InputNames(opt_raw, opt_staples) \subseteq OutputNames(opt_result)
       /\ (InputNames(opt_raw, opt_staples) # {} => CountItems(opt_result.categories) > 0)

\* The part of C2 that holds on every outcome: a result with at least one
\* item for a non-empty input.
C2_NonEmptyForNonEmptyInput ==
  Optimized
    => (InputNames(opt_raw, opt_staples) # {} => CountItems(opt_result.categories) > 0)

\* The part of C2 that holds on the except branch: the fallback lists every
\* raw ingredient and every staple that is not in stock.
C2_FallbackListsEverything ==
  (Optimized /\ TakesFallback(opt_response))
    => InputNames(opt_raw, opt_staples) \subseteq OutputNames(opt_result)

\* The items of a category as a bag of (name, quantity text) pairs.
ItemBag(items, Pair(_)) ==
  LET pairs == { Pair(items[i]) : i \in 1..Len(items) }
  IN  [p \in pairs |-> Cardinality({ i \in 1..Len(items) : Pair(items[i]) = p })]

\* A categorized list up to the order of its categories and of the items in
\* them: the categories that have an item, each with the bag of its items.
DisplayPair(item) == <<item.item, item.quantity>>

GeneratorPair(item) == <<item.item, QuantityText(item.quantity, item.unit)>>

ListUpToOrder(result, Pair(_)) ==
  { <<result.categories[c].category, ItemBag(result.categories[c].items, Pair)>> :
      c \in { d \in 1..Len(result.categories) : result.categories[d].items # <<>> } }

\* C3: when the classifier call throws or times out, the optimizer returns a
\* categorized list identical, up to ordering, to the one
\* generate_optimized_list returns for the same raw ingredients, organic
\* preferences, substitutions and staples.
C3_FallbackEqualsDeterministic ==
  (Optimized /\ opt_response.kind = "raise")
    => ListUpToOrder(opt_result, DisplayPair)
         = ListUpToOrder(generate_optimized_list(opt_raw, opt_prefs.organic,
                                                 opt_prefs.substitutions, opt_staples),
                         GeneratorPair)

\* What the fallback returns instead: every raw line under 'Other' in input
\* order with its name as given, then the staples that are not in stock; no
\* other category has an item.
C3_FallbackIsBasicList ==
  (Optimized /\ opt_response.kind = "raise")
    => LET all == AllItems(opt_result.categories)
           NotInStock(staple) == ~staple.in_stock
           out == SelectSeq(opt_staples, NotInStock)
       IN  /\ Len(all) = Len(opt_raw) + Len(out)
           /\ opt_result.total_items = Len(all)
           /\ \A c \in 1..Len(opt_result.categories) :
                opt_result.categories[c].category # "Other"
                  => opt_result.categories[c].items = <<>>
           /\ \A i \in 1..Len(opt_raw) : all[i].item = opt_raw[i].name
           /\ \A s \in 1..Len(out) : all[Len(opt_raw) + s].item = out[s].name

(***************************************************************************)
(* Claims about the product matcher                                        *)
(***************************************************************************)

\* The positions of the items whose search found a product.
MatchedPositions(responses) ==
  { i \in 1..Len(responses) : responses[i].kind = "match" }

RECURSIVE SumOfPrices(_, _)
SumOfPrices(responses, positions) ==
  IF positions = {} THEN 0
  ELSE LET i == CHOOSE j \in positions : TRUE
       IN  (IF responses[i].price.null THEN 0 ELSE responses[i].price.cents)
             + SumOfPrices(responses, positions \ {i})

SrcOf(entries) == { entries[k].src : k \in 1..Len(entries) }

\* C11: for every shopping list and every pattern of per-item catalog
\* outcomes, match_shopping_list returns a report in which each item is in
\* exactly one of matched_items and unmatched_items (matched exactly when
\* its search found a product), total_matched + total_unmatched =
\* total_items, estimated_cost is the sum of the matched prices with a
\* missing price counted as 0, and match_rate = total_matched / total_items
\* * 100, with match_rate = 0 and estimated_cost = 0 for the empty list.
C11_ReportAccountsForEveryItem ==
  mt_pc = "done" =>
    LET r == mt_report
        n == Len(mt_items)
        hit == MatchedPositions(mt_responses)
    IN  /\ r.returned
        /\ SrcOf(r.matched_items) = hit
        /\ SrcOf(r.unmatched_items) = (1..n) \ hit
        /\ Len(r.matched_items) = Cardinality(hit)
        /\ Len(r.unmatched_items) = n - Cardinality(hit)
        /\ r.total_matched = Cardinality(hit)
        /\ r.total_matched + r.total_unmatched = r.total_items
        /\ r.total_items = n
        /\ r.estimated_cost = SumOfPrices(mt_responses, hit)
        /\ n > 0 => r.match_rate[1] * r.total_items = r.total_matched * 100 * r.match_rate[2]
        /\ n = 0 => r.match_rate[1] = 0 /\ r.estimated_cost = 0

\* A list of three items in which one search raised, one got a non-200
\* response, and one matched a product without a price.
C11_Witness ==
  /\ mt_pc = "done"
  /\ Len(mt_items) = 3
  /\ \E i, j, k \in 1..3 :
       /\ mt_responses[i].kind = "exception"
       /\ mt_responses[j].kind = "status"
       /\ mt_responses[k] = CatalogResponse("match", NoPrice)
  /\ mt_report.returned
  /\ mt_report.total_matched = 1
  /\ mt_report.total_unmatched = 2

(***************************************************************************)
(* Claims about the chat editor                                            *)
(***************************************************************************)

\* The request was served with the given tool calls, in this order, and the
\* assistant's API answered.
ServedCalls(names) ==
  /\ ch_pc = "served"
  /\ ch_turn.services.api = "ok"
  /\ Len(ch_turn.tool_calls) = Len(names)
  /\ \A i \in 1..Len(names) : ch_turn.tool_calls[i].name = names[i]

\* A line of the changes of the served request has the kind.
ChangeOfKind(kind) ==
  \E i \in 1..Len(ch_served.result.changes_made) :
    ch_served.result.changes_made[i].kind = kind

\* A line of the changes of the served request names the value.
ChangeNames(value) ==
  \E i \in 1..Len(ch_served.result.changes_made) :
    \E k \in 1..Len(ch_served.result.changes_made[i].about) :
      Contains(value, ch_served.result.changes_made[i].about[k])

\* The preference of the call is in the manager's store or in the table of
\* the web layer.
Persisted(call) ==
  \/ Preference(_normalize_ingredient(call.ingredient), call.stockcode) \in ch_prefs
  \/ Preference(call.ingredient, call.stockcode) \in ch_table

\* C12: after a turn whose one tool call is set_preferred_product, the
\* preference is persisted if and only if the lookup of the product details
\* succeeded (and the store write succeeded); then the changes report the
\* save, and when the lookup failed the changes name the stockcode.
C12_PersistedIffLookupSucceeded ==
  ServedCalls(<<"set_preferred_product">>) /\ ch_turn.services.manager = "ok" =>
    LET call == ch_turn.tool_calls[1]
        found == ch_turn.services.lookup = "found"
        written == found /\ ch_turn.services.write
    IN  /\ Persisted(call) <=> written
        /\ written => ChangeOfKind("Saved preference")
        /\ ~found => ChangeNames(call.stockcode)

\* After a turn whose one tool call is set_preferred_product nothing was
\* persisted and the changes report an error, whatever the lookup would
\* have found.
C12_NeverPersisted ==
  ServedCalls(<<"set_preferred_product">>) =>
    /\ ~Persisted(ch_turn.tool_calls[1])
    /\ ch_prefs \in StoredPreferences
    /\ ChangeOfKind("Error saving preference")
    /\ ~ChangeNames(ch_turn.tool_calls[1].stockcode)

\* The places <<category, item>> of a list whose item's display name
\* contains the name, whatever the case of the letters.
PlacesNamed(categories, name) ==
  UNION { { <<c, i>> : i \in { j \in 1..Len(categories[c].items) :
                                Contains(Lower(name), Lower(categories[c].items[j].item)) } } :
          c \in 1..Len(categories) }

\* The place that comes first in the order of the scan: categories in the
\* order of the dict, items in the order of the category.
FirstPlace(places) ==
  CHOOSE p \in places :
    \A q \in places : p[1] < q[1] \/ (p[1] = q[1] /\ p[2] <= q[2])

\* The list without the item of one place.
WithoutPlace(categories, place) ==
  [c \in 1..Len(categories) |->
     IF c # place[1] THEN categories[c]
     ELSE [category |-> categories[c].category,
           items |-> [i \in 1..(Len(categories[c].items) - 1) |->
                        IF i < place[2] THEN categories[c].items[i]
                        ELSE categories[c].items[i + 1]]]]

\* The list after the requested names, one after the other, have each taken
\* out the first item they name.
RECURSIVE WithoutFirstNamed(_, _)
WithoutFirstNamed(categories, names) ==
  IF names = <<>> THEN categories
  ELSE LET places == PlacesNamed(categories, Head(names))
       IN  WithoutFirstNamed(IF places = {} THEN categories
                             ELSE WithoutPlace(categories, FirstPlace(places)),
                             Tail(names))

\* C18: a turn whose one tool call is remove_items removes, for each
\* requested name, at most one item: the first item of the first category
\* scanned whose display name contains the name case-insensitively; every
\* other item, other matches included, stays, and the result is the list the
\* session then stores.
C18_RemovesFirstMatchOnly ==
  ServedCalls(<<"remove_items">>) =>
    LET names == ch_turn.tool_calls[1].item_names
        before == ch_before.categories
        after == ch_served.result.updated_list
    IN  /\ ch_served.result.action = "remove"
        /\ ~after.null
        /\ after.categories = WithoutFirstNamed(before, names)
        /\ CountItems(before) - CountItems(after.categories) <= Len(names)
        /\ ch_session = after

\* One requested name that three items in two categories contain: the
\* first goes, the two others stay.
C18_Witness ==
  /\ ServedCalls(<<"remove_items">>)
  /\ ch_turn.tool_calls[1].item_names = << <<"m","i","l","k">> >>
  /\ Cardinality(PlacesNamed(ch_before.categories, <<"m","i","l","k">>)) = 3
  /\ PlacesNamed(ch_session.categories, <<"m","i","l","k">>) = { <<1, 1>>, <<2, 1>> }
  /\ CountItems(ch_session.categories) = 3

\* The places of the dict items whose display name contains the name.
DictPlacesNamed(categories, name) ==
  { p \in PlacesNamed(categories, name) : categories[p[1]].items[p[2]].dict }

\* The list with the quantity of the items of the places replaced.
WithQuantity(categories, places, quantity) ==
  [c \in 1..Len(categories) |->
     [category |-> categories[c].category,
      items |-> [i \in 1..Len(categories[c].items) |->
                   IF <<c, i>> \in places
                   THEN [categories[c].items[i] EXCEPT !.quantity = quantity]
                   ELSE categories[c].items[i]]]]

\* C19: a turn whose one tool call is modify_quantity, for a name that an
\* item of the list contains, changes the quantity of exactly one item: the
\* first such item over the whole list; the matching items of later
\* categories keep their quantity.
C19_ChangesFirstMatchOnly ==
  ServedCalls(<<"modify_quantity">>) /\ ch_turn.tool_calls[1].item_name # PyNone =>
    LET call == ch_turn.tool_calls[1]
        before == ch_before.categories
        places == DictPlacesNamed(before, call.item_name)
    IN  places # {} =>
          ch_served.result.updated_list =
            PyDict(WithQuantity(before, {FirstPlace(places)}, call.new_quantity))

\* What modify_quantity does: in every category, the first dict item whose
\* display name contains the name gets the new quantity.
C19_ChangesFirstMatchOfEveryCategory ==
  ServedCalls(<<"modify_quantity">>) /\ ch_turn.tool_calls[1].item_name # PyNone =>
    LET call == ch_turn.tool_calls[1]
        before == ch_before.categories
        places == DictPlacesNamed(before, call.item_name)
        firsts == { p \in places : \A q \in places : q[1] = p[1] => p[2] <= q[2] }
    IN  ch_served.result.updated_list =
          PyDict(WithQuantity(before, firsts, call.new_quantity))

\* C20: a served turn whose action is not an add, remove or modify of list
\* items (a plain reply, a catalog search, set_preferred_product,
\* get_preferred_products, remove_preferred_product) leaves the shopping
\* list of the stored session as it was before the turn.
C20_OtherActionsKeepTheList ==
  ch_pc = "served" /\ ch_served.result.action \notin {"add", "remove", "modify"} =>
    ch_session = ch_before

\* What the route does after a turn whose action is search, get_preferred
\* or remove_preferred: the result has the key updated_list with the value
\* None, and the route stores it as the session's shopping list.
C20_OtherToolsStoreNone ==
  ch_pc = "served" /\ ch_served.result.action \in {"search", "get_preferred", "remove_preferred"} =>
    ch_session = NoneList

\* The turn of the served request had tool calls and chat() answered with
\* action "none": processing raised part-way (the API itself answered).
FailedPartWay ==
  /\ ch_pc = "served"
  /\ ch_served.status = 200
  /\ ch_turn.services.api = "ok"
  /\ ch_turn.tool_calls # <<>>
  /\ ch_served.result.action = "none"

\* C21: if processing a chat turn fails part-way, so that chat() answers
\* with action "none", the shopping list that was passed to chat() is as it
\* was before the call: nothing an earlier step added, removed or changed
\* remains in it.
C21_FailedTurnLeavesList ==
  FailedPartWay => ch_served.passed = ch_before

\* After a turn that failed part-way the passed list has the categories it
\* had, in their order: a category created by an earlier step exists in the
\* copy only.  The items of those categories may have changed.
C21_FailedTurnKeepsCategories ==
  FailedPartWay =>
    /\ Len(ch_served.passed.categories) = Len(ch_before.categories)
    /\ \A c \in 1..Len(ch_before.categories) :
         ch_served.passed.categories[c].category = ch_before.categories[c].category
(***************************************************************************)
(* Claims about the preferred products                                     *)
(***************************************************************************)

AllCallsDone == \A w \in 1..Workers : pp_call[w].pc = "done"

\* The normalized ingredients of the calls and of the stored documents.
PreferenceKeys ==
  { _normalize_ingredient(pp_call[w].ingredient_name) : w \in 1..Workers }
    \cup { doc.ingredient_name : doc \in pp_initial }

\* The get_preferred_product calls for a key that returned a product.
SuccessfulGets(key) ==
  { w \in 1..Workers : /\ pp_call[w].op = "get"
                       /\ pp_call[w].result = "product"
                       /\ _normalize_ingredient(pp_call[w].ingredient_name) = key }

\* The use_count the key had before the calls, 0 without a document.
InitialUseCount(key) ==
  IF DocsOfKey(pp_initial, "default", key) = {} THEN 0
  ELSE (CHOOSE doc \in DocsOfKey(pp_initial, "default", key) : TRUE).use_count

RECURSIVE TotalUseCount(_)
TotalUseCount(docs) ==
  IF docs = {} THEN 0
  ELSE LET doc == CHOOSE d \in docs : TRUE
       IN  doc.use_count + TotalUseCount(docs \ {doc})

\* C13: when the calls of the workers are over, under every interleaving
\* of their lookups and upserts, the stored use_count of every ingredient
\* is what it was before plus the number of get_preferred_product calls for
\* that ingredient that returned a product; the use_count of an ingredient
\* without such a call is unchanged.
C13_UseCountRisesByCalls ==
  AllCallsDone =>
    \A key \in PreferenceKeys :
      \A doc \in DocsOfKey(pp_docs, "default", key) :
        doc.use_count = InitialUseCount(key) + Cardinality(SuccessfulGets(key))

\* Over all documents of a key together no increment is lost.
C13_TotalRisesByCalls ==
  AllCallsDone =>
    \A key \in PreferenceKeys :
      TotalUseCount(DocsOfKey(pp_docs, "default", key)) =
        InitialUseCount(key) + Cardinality(SuccessfulGets(key))

\* C15: at every moment of every interleaving of set_preferred_product
\* calls the collection has at most one document per (user, normalized
\* ingredient); two concurrent upserts of an ingredient that is not stored
\* do not both create one.
C15_OneRecordPerKey ==
  \A key \in PreferenceKeys : Cardinality(DocsOfKey(pp_docs, "default", key)) <= 1

\* A worker that has read an existing document, or that is alone with its
\* key, creates no second document: only upserts that both read "no
\* document" do.
C15_DuplicatesOnlyFromConcurrentCreates ==
  \A key \in PreferenceKeys :
    Cardinality(DocsOfKey(pp_docs, "default", key)) <=
      Cardinality(DocsOfKey(pp_initial, "default", key))
        + Cardinality({ w \in 1..Workers :
                          /\ pp_call[w].op = "set"
                          /\ pp_call[w].pc = "done"
                          /\ pp_call[w].ref = 0
                          /\ _normalize_ingredient(pp_call[w].ingredient_name) = key })

\* C14: a step that sets the preferred product of an ingredient that has
\* one leaves the creation timestamp of the ingredient's record as it was,
\* in the table of the web layer and in FirestoreManager's collection
\* (records of these two stores have no use_count).
C14_UpsertKeepsCreation ==
  [][ /\ \A r \in ws_rows : \A s \in ws_rows' :
           s.ingredient = r.ingredient => s.created_at = r.created_at
      /\ \A d \in ws_docs : \A e \in ws_docs' :
           e.id = d.id => e.created_at = d.created_at ]_vars

\* With PostgreSQL and in FirestoreManager the creation timestamp is kept.
C14_KeptButInSqlite ==
  [][ /\ ws_db_type = "postgresql" =>
           \A r \in ws_rows : \A s \in ws_rows' :
             s.ingredient = r.ingredient => s.created_at = r.created_at
      /\ \A d \in ws_docs : \A e \in ws_docs' :
           e.id = d.id => e.created_at = d.created_at ]_vars

\* In PreferredProductsManager a step changes the stockcode of a document
\* or its use_count, never both, and never its added_date.
C14_ManagerKeepsCountAndDate ==
  [][ \A d \in pp_docs : \A e \in pp_docs' :
        e.id = d.id =>
          /\ e.added_date = d.added_date
          /\ e.stockcode # d.stockcode => e.use_count = d.use_count ]_vars

\* Client c ends a call of FirestoreManager that writes: the update or add
\* of set_preferred_product, or the delete of remove_preferred_product.
FirestoreWrites(c) ==
  /\ ws_request[c].path \in {"firestore", "firestore_remove"}
  /\ ws_request[c].pc = "read"
  /\ ws_request'[c].pc = "done"

\* C25: set_preferred_product and remove_preferred_product for ingredient A
\* change only the record whose ingredient is A: a record stored for
\* another ingredient is neither overwritten nor deleted.
C25_OtherIngredientsKept ==
  [][\A c \in 1..Clients :
       FirestoreWrites(c) =>
         \A doc \in ws_docs :
           doc.ingredient # ws_request[c].ingredient => doc \in ws_docs']_vars

\* A call changes or deletes at most the one document its lookup returned,
\* whatever ingredient that document is stored for.
C25_OnlyTheDocumentReadChanges ==
  [][\A c \in 1..Clients :
       FirestoreWrites(c) =>
         \A doc \in ws_docs :
           doc.id # ws_request[c].existing => doc \in ws_docs']_vars
(***************************************************************************)
(* Claims about PreferencesDB                                              *)
(***************************************************************************)

\* C16: right after add_substitution(o, s) the rule of o is active:
\* get_substitution(o) returns s (in the lower case it is stored in) and
\* get_all_substitutions lists it, also when o was soft-deleted before.
C16_ActiveAfterAdd ==
  sb_last.op = "add" =>
    /\ get_substitution(sb_rows, sb_last.original) = Lower(sb_last.substitute)
    /\ <<Lower(sb_last.original), Lower(sb_last.substitute)>>
         \in get_all_substitutions(sb_rows)

\* delete_substitution removes no row, and a rule that was not deleted
\* before is active after add_substitution.
C16_DeleteKeepsRows ==
  [][ /\ { r.id : r \in sb_rows } \subseteq { r.id : r \in sb_rows' }
      /\ sb_last'.op = "add"
           /\ (\A r \in sb_rows : r.original_ingredient = Lower(sb_last'.original) => r.active)
           => get_substitution(sb_rows', sb_last'.original) = Lower(sb_last'.substitute) ]_vars

\* C17: right after set_default(key, value), for a value that is a bool, an
\* int, a str or None, get_default(key) returns that value with its type,
\* whatever the key held before, and get_all_defaults succeeds and has that
\* value for the key; on the freshly initialised store get_all_defaults
\* succeeds.
C17_TypedRoundTrip ==
  /\ df_calls = 0 => ~get_all_defaults(df_rows).raised
  /\ df_last.op = "set" =>
       /\ get_default(df_rows, df_last.key) = df_last.value
       /\ ~get_all_defaults(df_rows).raised
       /\ <<df_last.key, df_last.value>> \in get_all_defaults(df_rows).defaults

\* What holds: a bool, an int and a str other than 'null' that is set for a
\* key that had no row comes back from get_default as it was.
C17_RoundTripOfNewKeys ==
  [][ /\ df_last'.op = "set"
      /\ ~(\E r \in df_rows : r.setting_key = df_last'.key)
      /\ df_last'.value.t \in {"bool", "int", "str"}
      /\ df_last'.value # StrValue(<<"n","u","l","l">>)
      => get_default(df_rows', df_last'.key) = df_last'.value ]_vars

\* C30: once remove_organic_preference(x) has run, should_prefer_organic(x)
\* is false and x is absent from get_all_organic_preferences in every later
\* state until add_organic_preference(x) is called, also after the store is
\* initialised again and also for the seeded default ingredients.
C30_RemovedStaysRemoved ==
  \A x \in og_removed :
    /\ ~should_prefer_organic(og_rows, x)
    /\ x \notin get_all_organic_preferences(og_rows)

\* What holds: a removed ingredient that is no seeded default stays removed
\* until it is added, also across init_db.
C30_RemovedNonDefaultStaysRemoved ==
  \A x \in og_removed \ { Lower(d) : d \in default_organic } :
    /\ ~should_prefer_organic(og_rows, x)
    /\ x \notin get_all_organic_preferences(og_rows)

\* What holds: right after init_db every seeded default is preferred organic
\* again, whether or not it was removed before.
C30_InitRestoresDefaults ==
  og_last.op = "init" =>
    \A d \in default_organic :
      /\ should_prefer_organic(og_rows, d)
      /\ Lower(d) \in get_all_organic_preferences(og_rows)

\* A seeded default was removed and the store was initialised again.
C30_RemovedDefaultReinitialised ==
  /\ og_last.op = "init"
  /\ <<"k","a","l","e">> \in og_removed
(***************************************************************************)
(* Claims about the pipeline of the optimizers and of the route            *)
(***************************************************************************)

\* The categories of a generated list that bear a configured staple
\* category: the category of that name, and the category of the canonical
\* list that covers it.
ListedAs(configured) ==
  CASE configured = "Dairy" -> { "Dairy", "Dairy & Eggs" }
    [] configured = "Proteins" -> { "Proteins", "Meat & Seafood" }
    [] configured = "Pantry" -> { "Pantry", "Pantry Staples" }
    [] OTHER -> { configured }

\* The categories of the result in which an item with the staple's name and
\* the staple note is listed.
StapleCategories(result, staple) ==
  { result.categories[c].category :
      c \in { d \in 1..Len(result.categories) :
                \E i \in 1..Len(result.categories[d].items) :
                  /\ result.categories[d].items[i].item = staple.name
                  /\ result.categories[d].items[i].notes = <<"Staple item">> } }

\* The staples of the run that are not in stock.
UncheckedStaples ==
  { opt_staples[s] : s \in { t \in 1..Len(opt_staples) : ~opt_staples[t].in_stock } }

\* C23: in the deterministic optimizer every staple whose in_stock flag is
\* false is listed under its own preconfigured category; the keyword
\* categorizer does not decide where such a staple goes.
C23_StapleUnderOwnCategory ==
  opt_pc = "deterministic" =>
    \A staple \in UncheckedStaples :
      /\ StapleCategories(opt_result, staple) # {}
      /\ StapleCategories(opt_result, staple) \subseteq ListedAs(staple.category)

\* The deterministic optimizer lists every staple that is not in stock
\* under the category the keyword categorizer gives its name.
C23_StapleUnderKeywordCategory ==
  opt_pc = "deterministic" =>
    \A staple \in UncheckedStaples :
      StapleCategories(opt_result, staple) = { _get_category(Lower(staple.name)) }

\* The optimizer returned; on the AI path the repair pass ran.
Returned == opt_pc \in {"native", "langchain", "deterministic"}

\* The repair pass ran on the classifier's JSON and returned.
Repaired == Optimized /\ ~TakesFallback(opt_response)

\* C24: the total_items of every optimizer result is the number of display
\* items over all returned categories: on the deterministic path, on the
\* fallback path, and on the AI path after the repair pass, whether or not
\* the repair added an item.
C24_TotalCountsItems ==
  Returned => opt_result.total_items = CountItems(opt_result.categories)

\* The count holds on the deterministic path, on both fallbacks, after the
\* native repair pass, and after the LangChain repair pass when it added an
\* item; when the LangChain repair pass adds nothing, total_items is what
\* the classifier wrote.
C24_TotalCountsItemsUnlessUnrepaired ==
  Returned =>
    IF /\ opt_pc = "langchain"
       /\ ~TakesFallback(opt_response)
       /\ CountItems(opt_result.categories) = CountItems(opt_response.result.categories)
    THEN opt_result.total_items = opt_response.result.total_items
    ELSE opt_result.total_items = CountItems(opt_result.categories)

\* The repair pass appended an item of this name to 'Other'.
AppendedToOther(name) ==
  \E c \in 1..Len(opt_result.categories) :
    /\ opt_result.categories[c].category = "Other"
    /\ \E i \in 1..Len(opt_result.categories[c].items) :
         /\ opt_result.categories[c].items[i].item = name
         /\ opt_result.categories[c].items[i].notes = "Added (missing from AI)"

\* The classifier listed the substitute of an active rule whose original is
\* the name.
ReplacedByRule(name) ==
  \E r \in 1..Len(opt_prefs.substitutions) :
    /\ Lower(opt_prefs.substitutions[r].original) = Normalized(name)
    /\ Normalized(opt_prefs.substitutions[r].substitute)
         \in AiNames(opt_response.result.categories)

\* C26: the repair pass compares the classifier's output with the input
\* names as they are after the substitutions were applied: an ingredient
\* that the classifier replaced according to an active substitution rule is
\* not appended to 'Other' again under its original name.
C26_ReplacedIngredientNotAppended ==
  Repaired =>
    \A i \in 1..Len(opt_raw) :
      ReplacedByRule(opt_raw[i].name) => ~AppendedToOther(opt_raw[i].name)

\* The repair pass compares with the names of the raw ingredients as they
\* were given: a raw ingredient is appended under its own name exactly when
\* no classifier item contains it or is contained in it, whatever the rules.
C26_RepairComparesGivenNames ==
  Repaired =>
    \A i \in 1..Len(opt_raw) :
      AppendedToOther(opt_raw[i].name)
        <=> ~Found(Normalized(opt_raw[i].name), AiNames(opt_response.result.categories))

\* The normalized names of the classifier's items that have a name.
NamedAiItems == AiNames(opt_response.result.categories) \ { <<>> }

\* C28: in the repair pass an input ingredient counts as covered only
\* through a classifier item with a non-empty name: an ingredient that no
\* named classifier item covers is appended by the repair, whether or not
\* the classifier's answer has an item whose name is empty or missing.
C28_OnlyNamedItemsCover ==
  Repaired =>
    \A i \in 1..Len(opt_raw) :
      ~Found(Normalized(opt_raw[i].name), NamedAiItems)
        => AppendedToOther(opt_raw[i].name)

\* One classifier item whose name is empty or missing covers every input:
\* the repair pass then appends nothing.
C28_NamelessItemCoversEverything ==
  (Repaired /\ <<>> \in AiNames(opt_response.result.categories)) =>
    opt_result.categories = opt_response.result.categories

\* The name an entry of the served list stands for: the item of a display
\* item of the optimizer, else the name the ingredient had before a
\* substitution.
StandsFor(entry) ==
  IF rt_served.ai_optimized THEN entry.item
  ELSE IF entry.original_name # Absent THEN entry.original_name ELSE entry.name

\* How many entries of the served list stand for the name.
TimesListed(name) ==
  LET all == AllItems(rt_served.categories)
  IN  Cardinality({ i \in 1..Len(all) : StandsFor(all[i]) = name })

\* The classifier listed everything it was asked for, or there is none.
ListedOrUnassisted ==
  \/ rt_classifier.kind = "unavailable"
  \/ /\ rt_classifier.kind = "json"
     /\ rt_classifier.names = AskedNames(rt_lines, rt_staples)

\* C29: in a list generated by the /shopping-list route each staple that is
\* not in stock appears exactly once and each staple that is in stock does
\* not appear, on every path: classifier output complete, classifier output
\* without the staple (repair), classifier failure (fallback), and no
\* classifier available.  The recipe lines of the model name no staple.
C29_StaplesListedOnce ==
  rt_pc = "served" =>
    \A s \in 1..Len(rt_staples) :
      TimesListed(rt_staples[s].name) = IF rt_staples[s].in_stock THEN 0 ELSE 1

\* Staples are listed once when the classifier listed them or when there is
\* no classifier; after the repair pass and after the fallback a staple
\* that is not in stock is listed twice.  A staple in stock is never listed.
C29_StaplesListedTwiceAfterRepairOrFallback ==
  rt_pc = "served" =>
    \A s \in 1..Len(rt_staples) :
      TimesListed(rt_staples[s].name) =
        IF rt_staples[s].in_stock THEN 0
        ELSE IF ListedOrUnassisted THEN 1 ELSE 2
(***************************************************************************)
(* Specifications                                                          *)
(***************************************************************************)

\* Calls of _get_category
CategoryInit ==
  /\ CatInit
  /\ PrefIdle
  /\ QpIdle
  /\ CmbIdle
  /\ OptIdle
  /\ MtIdle
  /\ ChatIdle
  /\ PpIdle
  /\ WsIdle
  /\ SbIdle
  /\ DfIdle
  /\ RtIdle
  /\ OgIdle

SpecCategory == CategoryInit /\ [][CatNext]_vars

\* The preference steps of the generator and of the web layer
PreferencesInit ==
  /\ PrefInit
  /\ CatIdle
  /\ QpIdle
  /\ CmbIdle
  /\ OptIdle
  /\ MtIdle
  /\ ChatIdle
  /\ PpIdle
  /\ WsIdle
  /\ SbIdle
  /\ DfIdle
  /\ RtIdle
  /\ OgIdle

SpecPrefs == PreferencesInit /\ [][PrefNext]_vars

\* Parses of one quantity
QuantityInit ==
  /\ QpInit
  /\ CatIdle
  /\ PrefIdle
  /\ CmbIdle
  /\ OptIdle
  /\ MtIdle
  /\ ChatIdle
  /\ PpIdle
  /\ WsIdle
  /\ SbIdle
  /\ DfIdle
  /\ RtIdle
  /\ OgIdle

SpecQuantity == QuantityInit /\ [][QpNext]_vars

\* Aggregations of ingredient lines
CombineInit ==
  /\ CmbInit
  /\ CatIdle
  /\ PrefIdle
  /\ QpIdle
  /\ OptIdle
  /\ MtIdle
  /\ ChatIdle
  /\ PpIdle
  /\ WsIdle
  /\ SbIdle
  /\ DfIdle
  /\ RtIdle
  /\ OgIdle

SpecCombine == CombineInit /\ [][CmbNext]_vars

\* Calls of the optimizers on one shopping list
OptimizeInit ==
  /\ OptInit
  /\ CatIdle
  /\ PrefIdle
  /\ QpIdle
  /\ CmbIdle
  /\ MtIdle
  /\ ChatIdle
  /\ PpIdle
  /\ WsIdle
  /\ SbIdle
  /\ DfIdle
  /\ RtIdle
  /\ OgIdle

SpecOptimize == OptimizeInit /\ [][OptNext]_vars

\* Calls of match_shopping_list
MatchInit ==
  /\ MtInit
  /\ CatIdle
  /\ PrefIdle
  /\ QpIdle
  /\ CmbIdle
  /\ OptIdle
  /\ ChatIdle
  /\ PpIdle
  /\ WsIdle
  /\ SbIdle
  /\ DfIdle
  /\ RtIdle
  /\ OgIdle

SpecMatch == MatchInit /\ [][MtNext]_vars

\* Requests of the chat editor
ChatSpecInit ==
  /\ ChatInit
  /\ CatIdle
  /\ PrefIdle
  /\ QpIdle
  /\ CmbIdle
  /\ OptIdle
  /\ MtIdle
  /\ PpIdle
  /\ WsIdle
  /\ SbIdle
  /\ DfIdle
  /\ RtIdle
  /\ OgIdle

SpecChat == ChatSpecInit /\ [][ChatNext]_vars

\* Concurrent calls of PreferredProductsManager
PreferredInit ==
  /\ PpInit
  /\ CatIdle
  /\ PrefIdle
  /\ QpIdle
  /\ CmbIdle
  /\ OptIdle
  /\ MtIdle
  /\ ChatIdle
  /\ WsIdle
  /\ SbIdle
  /\ DfIdle
  /\ RtIdle
  /\ OgIdle

SpecPreferred == PreferredInit /\ [][PpNext]_vars

\* Requests to the preferred_products table and to FirestoreManager
StoresInit ==
  /\ WsInit
  /\ CatIdle
  /\ PrefIdle
  /\ QpIdle
  /\ CmbIdle
  /\ OptIdle
  /\ MtIdle
  /\ ChatIdle
  /\ PpIdle
  /\ SbIdle
  /\ DfIdle
  /\ RtIdle
  /\ OgIdle

SpecStores == StoresInit /\ [][WsNext]_vars

\* Calls of add_substitution and delete_substitution
SubstitutionsInit ==
  /\ SbInit
  /\ CatIdle
  /\ PrefIdle
  /\ QpIdle
  /\ CmbIdle
  /\ OptIdle
  /\ MtIdle
  /\ ChatIdle
  /\ PpIdle
  /\ WsIdle
  /\ DfIdle
  /\ RtIdle
  /\ OgIdle

SpecSubstitutions == SubstitutionsInit /\ [][SbNext]_vars

\* Calls of set_default
DefaultsInit ==
  /\ DfInit
  /\ CatIdle
  /\ PrefIdle
  /\ QpIdle
  /\ CmbIdle
  /\ OptIdle
  /\ MtIdle
  /\ ChatIdle
  /\ PpIdle
  /\ WsIdle
  /\ SbIdle
  /\ RtIdle
  /\ OgIdle

SpecDefaults == DefaultsInit /\ [][DfNext]_vars

\* Requests of the /shopping-list route that generate a list
RouteInit ==
  /\ RtInit
  /\ CatIdle
  /\ PrefIdle
  /\ QpIdle
  /\ CmbIdle
  /\ OptIdle
  /\ MtIdle
  /\ ChatIdle
  /\ PpIdle
  /\ WsIdle
  /\ SbIdle
  /\ DfIdle
  /\ OgIdle

SpecRoute == RouteInit /\ [][RtNext]_vars

\* Calls of add_organic_preference, remove_organic_preference and init_db
OrganicInit ==
  /\ OgInit
  /\ CatIdle
  /\ PrefIdle
  /\ QpIdle
  /\ CmbIdle
  /\ OptIdle
  /\ MtIdle
  /\ ChatIdle
  /\ PpIdle
  /\ WsIdle
  /\ SbIdle
  /\ DfIdle
  /\ RtIdle

SpecOrganic == OrganicInit /\ [][OgNext]_vars

====
